---------------------------- MODULE Spec2Model ----------------------------
(***************************************************************************)
(* A model of the borf repository: the deterministic parallel parse        *)
(* driver (src/src/concurrent.rs), the native arithmetic primitives and    *)
(* the tree-walking evaluator (src/src/evaluator/mod.rs).                  *)
(*                                                                         *)
(* The module holds several specifications over one set of variables; the  *)
(* variables of the components a specification does not exercise keep      *)
(* their initial value.                                                    *)
(*   DriverSpec  parse_files_deterministic, one call                       *)
(*   NativeSpec  apply_native_function applied to drawn arguments          *)
(*   EvalSpec    a REPL session: expressions and declarations evaluated    *)
(*               in the global environment                                 *)
(*   BindSpec    bind_pattern applied to drawn patterns, values and tables *)
(*   DeclSpec    evaluate_declaration applied to drawn frames              *)
(*   DiagSpec    enhance_pest_error and ParseError::from_pest applied to   *)
(*               drawn grammar mismatches                                  *)
(*   ParseSpec   parse_expr, parse_expr_with_context and record_error      *)
(*               called on drawn pairs and a caller's ParserContext        *)
(*   ObserverSpec  traceable_parse called on one ParserObserver, step by   *)
(*               step of its notifications                                 *)
(*   LsmSpec     an LSMTree (lsmer) opened with init or recover over one   *)
(*               WAL directory, rows put, the tree dropped                 *)
(*   QSpec       parse and eval_str (qparser) called on drawn texts        *)
(*   HashSpec    two Values compared with == and hashed                    *)
(*   WorkerSpec  run_workers on drawn tasks and a drawn num_workers, its   *)
(*               threads interleaved                                       *)
(*   ResultSpec  parse_files_deterministic_result on files with the        *)
(*               caller's indices, then get_ordered_results                *)
(***************************************************************************)
EXTENDS Integers, Sequences, FiniteSets, TLC

VARIABLES
    \* ---- parse_files_deterministic (concurrent.rs) ----
    paths,      \* the `paths` argument: a sequence of path names
    pc,         \* position of the calling thread in parse_files_deterministic
    readIdx,    \* how many paths the read phase (filter_map) has consumed
    work,       \* the `work` vector: <<idx, path>> of every file that was read
    results,    \* DeterministicParseResults.results: the DashMap index -> result
    jobs,       \* per work item: where its for_each closure stands, its local result
    wg,         \* live clones of the WaitGroup besides the caller's own
    arcs,       \* strong count of the Arc around `results`
    parsers,    \* indices for which parser_factory() has been called
    processed,  \* indices for which process_pairs has been called
    ret,        \* the vector parse_files_deterministic returned
    insertOrder,\* history: the indices in the order they were inserted into results
    retIdx,     \* history: the index each element of ret was stored under
    \* ---- the build, and apply_native_function (evaluator/mod.rs) ----
    overflowChecks, \* whether the build panics on integer overflow (debug) or wraps
    nativeCall,     \* the last call of apply_native_function: name, args, outcome
    \* ---- the REPL and the evaluator (main.rs, evaluator/mod.rs) ----
    heap,       \* the Environment frames alive between two inputs; frame 1 is global
    replPc,     \* position of run_repl: "prompt", "report", "crashed", "exited"
    replInput,  \* the ReplInput of the line being processed
    evalResult, \* eval_result of that line, or the panic that ended the process
    evalHeap,   \* history: the frames as the evaluation of the line left them
    trace,      \* history: what the evaluation of the line did, in order
    declared,   \* the declarations entered so far, in order
    \* ---- bind_pattern (evaluator/mod.rs) ----
    bindCall,   \* the last call of bind_pattern: pattern, value, table, outcome
    \* ---- evaluate_declaration (evaluator/mod.rs) ----
    declCall,   \* the last call: declaration, frame, frames before and after
    diagCall,   \* the last grammar mismatch converted: the error, the input, both diagnostics
    parseContext,\* the caller's ParserContext
    parseCall,  \* the last call of the parser: function, pair, result, diagnostics left
    parseCount, \* calls made so far
    observer,   \* the ParserObserver: depth, stacks, statistics, parse tree
    tpPc,       \* where traceable_parse stands
    tpFrames,   \* the live RuleTracers, each with the pairs still to trace
    tpResult,   \* what P::parse returned to the call in progress
    tpCount,    \* calls of traceable_parse begun on the observer
    notes,      \* history: the notifications the observer received, in order
    walLog,     \* the records of wal.log in the WAL directory
    lsmTree,    \* the LSMTree of the process, if one is open: how it was made, its memtable
    qCall,      \* the last call into the qparser crate: function, input, out
    hashCall,   \* the last comparison and hashing of two Values
    indexedFiles,\* the files: Vec<(usize, String)> given to parse_files_deterministic_result
    fileJobs,   \* per file, how far its for_each closure is and what parser_fn gave
    fileResults,\* the DashMap of the DeterministicParseResults being filled
    filePc,     \* where the caller is: for_each, returned, ordered
    ordered,    \* the vector get_ordered_results returned
    numWorkers, \* num_workers of the call of run_workers
    tasks,      \* the tasks given, each by what running it does
    taskQueue,  \* the tasks in the channel, oldest first
    handles,    \* per spawned thread, where it is
    runs,       \* per task, how many times it was run
    workerPc,   \* where run_workers is
    workerRet   \* what run_workers returned

driverVars == <<paths, pc, readIdx, work, results, jobs, wg, arcs, parsers,
                processed, ret, insertOrder, retIdx>>

nativeVars == <<overflowChecks, nativeCall>>

evalVars == <<heap, replPc, replInput, evalResult, evalHeap, trace, declared>>

bindVars == <<bindCall>>

declVars == <<declCall>>

diagVars == <<diagCall>>

parseVars == <<parseContext, parseCall, parseCount>>

observerVars == <<observer, tpPc, tpFrames, tpResult, tpCount, notes>>

lsmVars == <<walLog, lsmTree>>

qVars == <<qCall>>

hashVars == <<hashCall>>

resultVars == <<indexedFiles, fileJobs, fileResults, filePc, ordered>>

workerVars == <<numWorkers, tasks, taskQueue, handles, runs, workerPc, workerRet>>

vars == <<driverVars, nativeVars, evalVars, bindVars, declVars, diagVars, parseVars, observerVars, lsmVars, qVars, hashVars, resultVars, workerVars>>

(***************************************************************************)
(* Bounds of the model.                                                    *)
(***************************************************************************)
MaxFiles == 3      \* longest `paths` argument
NumThreads == 2    \* threads of the rayon pool running for_each closures
MaxDeclarations == 2   \* declarations entered in one REPL session
MaxOffset == 3     \* largest byte offset of an error location
MaxParseCalls == 2 \* calls made on one ParserContext
MaxTraces == 2     \* calls of traceable_parse on one observer
MaxRows == 2       \* rows put into the trees of one WAL directory
MaxJobs == 2       \* files given to parse_files_deterministic_result, and their largest index
MaxTasks == 2      \* tasks given to run_workers
MaxWorkers == 2    \* largest num_workers given to run_workers
MaxLiteral == 3    \* largest literal of a drawn arithmetic expression
MaxExactBits == 24 \* bits of a float mantissa followed exactly

\* `let x = value;` followed by the rest of the block
LetIn(value, Rest(_)) == Rest(value)

(***************************************************************************)
(* 64-bit integers.  An i64 is its two's-complement bytes, least           *)
(* significant first; the mathematical result of an operation is computed  *)
(* at twice the width, where none of + - * / on two i64 can overflow.      *)
(***************************************************************************)
I64Bytes == 8
WideBytes == 2 * I64Bytes

IsNegative(a) == a[Len(a)] >= 128

SignExtend(a, n) ==
    [i \in 1..n |-> IF i <= Len(a) THEN a[i] ELSE IF IsNegative(a) THEN 255 ELSE 0]

Truncate(a, n) == [i \in 1..n |-> a[i]]

Wide(a) == SignExtend(a, WideBytes)

\* whether the wide integer w is in the range of an i64
FitsI64(w) == SignExtend(Truncate(w, I64Bytes), Len(w)) = w

RECURSIVE AddCarry(_, _, _, _)
AddCarry(a, b, i, carry) ==
    IF i > Len(a) THEN <<>>
    ELSE <<(a[i] + b[i] + carry) % 256>>
             \o AddCarry(a, b, i + 1, (a[i] + b[i] + carry) \div 256)

\* sum, difference, negation and product modulo 2^(8 * Len(a))
WAdd(a, b) == AddCarry(a, b, 1, 0)
WNot(a) == [i \in 1..Len(a) |-> 255 - a[i]]
WOne(n) == [i \in 1..n |-> IF i = 1 THEN 1 ELSE 0]
WZero(n) == [i \in 1..n |-> 0]
WNeg(a) == WAdd(WNot(a), WOne(Len(a)))
WSub(a, b) == WAdd(a, WNeg(b))

RECURSIVE ColumnSum(_, _, _, _)
ColumnSum(a, b, k, i) ==
    IF i > k THEN 0 ELSE a[i] * b[k + 1 - i] + ColumnSum(a, b, k, i + 1)

RECURSIVE MulColumns(_, _, _, _)
MulColumns(a, b, k, carry) ==
    IF k > Len(a) THEN <<>>
    ELSE LetIn(ColumnSum(a, b, k, 1) + carry, LAMBDA s :
               <<s % 256>> \o MulColumns(a, b, k + 1, s \div 256))

WMul(a, b) == MulColumns(a, b, 1, 0)

RECURSIVE ULessFrom(_, _, _)
\* a < b as unsigned numbers, comparing from byte i downwards
ULessFrom(a, b, i) ==
    IF i = 0 THEN FALSE
    ELSE IF a[i] # b[i] THEN a[i] < b[i]
    ELSE ULessFrom(a, b, i - 1)

ULess(a, b) == ULessFrom(a, b, Len(a))

Bit(a, i) == (a[(i \div 8) + 1] \div (2 ^ (i % 8))) % 2

\* one step of the long division of unsigned a by b # 0: bit i of a is
\* shifted into the remainder r; the quotient bit and the new remainder
DivStep(a, b, i, r) ==
    LetIn(WAdd(WAdd(r, r), [k \in 1..Len(a) |-> IF k = 1 THEN Bit(a, i) ELSE 0]),
          LAMBDA r2 : IF ULess(r2, b) THEN <<0, r2>> ELSE <<1, WSub(r2, b)>>)

RECURSIVE DivBitsOfByte(_, _, _, _, _)
\* the steps for bits n, n - 1, ... 0 of byte j of a: the quotient's byte and
\* the remainder
DivBitsOfByte(a, b, j, n, r) ==
    IF n < 0 THEN <<0, r>>
    ELSE LetIn(DivStep(a, b, 8 * (j - 1) + n, r), LAMBDA s :
         LetIn(DivBitsOfByte(a, b, j, n - 1, s[2]), LAMBDA rest :
               <<s[1] * (2 ^ n) + rest[1], rest[2]>>))

RECURSIVE DivBytes(_, _, _, _)
\* the quotient's bytes j, j - 1, ... 1, most significant first
DivBytes(a, b, j, r) ==
    IF j = 0 THEN <<>>
    ELSE LetIn(DivBitsOfByte(a, b, j, 7, r),
               LAMBDA d : <<d[1]>> \o DivBytes(a, b, j - 1, d[2]))

WAbs(a) == IF IsNegative(a) THEN WNeg(a) ELSE a

\* the quotient truncated towards zero of two sign-extended i64, b # 0: the
\* magnitude of the dividend is at most 2^63, so the division starts at byte 8
WDiv(a, b) ==
    LetIn(DivBytes(WAbs(a), WAbs(b), I64Bytes, WZero(Len(a))), LAMBDA bytes :
    LetIn([j \in 1..Len(a) |-> IF j <= I64Bytes THEN bytes[I64Bytes + 1 - j] ELSE 0],
          LAMBDA q : IF IsNegative(a) # IsNegative(b) THEN WNeg(q) ELSE q))

\* the mathematical result of `a op b` on two i64, as a wide integer
TrueResult(op, a, b) ==
    CASE op = "+" -> WAdd(Wide(a), Wide(b))
      [] op = "-" -> WSub(Wide(a), Wide(b))
      [] op = "*" -> WMul(Wide(a), Wide(b))
      [] op = "/" -> WDiv(Wide(a), Wide(b))

\* the i64 of a small number, |n| < 2^31
I64(n) ==
    LET m == IF n < 0 THEN -n ELSE n
        pos == [i \in 1..I64Bytes |-> IF i <= 4 THEN (m \div (256 ^ (i - 1))) % 256 ELSE 0]
    IN  IF n < 0 THEN WNeg(pos) ELSE pos

I64Zero == WZero(I64Bytes)
I64Max == [i \in 1..I64Bytes |-> IF i = I64Bytes THEN 127 ELSE 255]
I64Min == [i \in 1..I64Bytes |-> IF i = I64Bytes THEN 128 ELSE 0]

\* i64::checked_add: None on overflow
CheckedAdd(a, b) ==
    LetIn(TrueResult("+", a, b), LAMBDA s :
          IF FitsI64(s) THEN <<"Some", Truncate(s, I64Bytes)>> ELSE <<"None">>)

\* The built-in operators - and * on i64: on overflow a build with overflow
\* checks panics and a build without them wraps.  The built-in / panics on a
\* zero divisor and on i64::MIN / -1 in every build.
I64Op(op, a, b, checks) ==
    IF op = "/" /\ b = I64Zero
    THEN <<"Panic", "attempt to divide by zero">>
    ELSE LetIn(TrueResult(op, a, b), LAMBDA t :
               IF FitsI64(t) THEN <<"Ok", Truncate(t, I64Bytes)>>
               ELSE IF checks \/ op = "/"
                    THEN <<"Panic", "arithmetic overflow">>
                    ELSE <<"Ok", Truncate(t, I64Bytes)>>)

(***************************************************************************)
(* 64-bit floats.  A float the program is given is <<"Float", m, e>>, the  *)
(* value m * 2^e; a float the program computes is the term of the f64      *)
(* operation that produced it, <<"Float", <<op, x, y>>>>: no property here *)
(* depends on the digits of a computed float.                              *)
(***************************************************************************)
F64EpsilonExp == -52      \* f64::EPSILON = 2^-52

RECURSIVE BitLen(_)
\* the number of bits of n >= 0
BitLen(n) == IF n = 0 THEN 0 ELSE 1 + BitLen(n \div 2)

Magnitude(n) == IF n < 0 THEN -n ELSE n

\* the exponent of the leading bit of a nonzero float
LeadExp(f) == f[3] + BitLen(Magnitude(f[2])) - 1

\* f.abs() < f64::EPSILON
AbsBelowEpsilon(f) ==
    CASE Len(f) = 3 -> f[2] = 0 \/ LeadExp(f) < F64EpsilonExp

\* a + b, a - b, a * b, a / b on f64: never a panic
F64Op(op, a, b) == <<"Float", <<op, a, b>>>>

\* `i as f64`
IntToFloat(i) == <<"Float", <<"as f64", i>>>>

(***************************************************************************)
(* Value and EvalError (evaluator/mod.rs lines 12-28, 171-210)             *)
(***************************************************************************)
VInteger(i) == <<"Integer", i>>
VString(s) == <<"String", s>>
VBoolean(b) == <<"Boolean", b>>
VSymbol(s) == <<"Symbol", s>>
VList(items) == <<"List", items>>
VMap(m) == <<"Map", m>>
VSet(elems) == <<"Set", elems>>
VNative(name) == <<"Function", <<"Native", name>>>>
VClosure(params, body, env) == <<"Function", <<"Closure", params, body, env>>>>
VModule(name) == <<"Module", name>>
VQuote(expr) == <<"Quote", expr>>
VNull == <<"Null">>
VVoid == <<"Void">>

\* Value::type_name
TypeName(v) == v[1]

Ok(v) == <<"Ok", v>>
Err(e) == <<"Err", e>>
Panic(msg) == <<"Panic", msg>>

\* Display for Value (lines 1451-1513).  The text of a number, a collection or
\* a quote is kept as the value it formats.
Display(v) ==
    CASE v[1] = "Boolean" -> IF v[2] THEN "true" ELSE "false"
      [] v[1] = "String" -> "\"" \o v[2] \o "\""
      [] v[1] = "Symbol" -> v[2]
      [] v[1] = "Function" -> "<function>"
      [] v[1] = "Module" -> "<module:" \o v[2] \o ">"
      [] v[1] = "Null" -> "null"
      [] v[1] = "Void" -> "void"
      [] OTHER -> <<"{}", v>>

\* the {:?} text of a pattern, kept as the pattern
DebugPattern(p) == <<"{:?}", p>>

UnboundVariable(name) == <<"UnboundVariable", name>>
TypeError(expected, foundType, value) == <<"TypeError", expected, foundType, value>>
ArityMismatch(context, expected, found) == <<"ArityMismatch", context, expected, found>>
NotAFunction(value) == <<"NotAFunction", value>>
DivisionByZero == <<"DivisionByZero">>
InvalidArguments(context, message) == <<"InvalidArguments", context, message>>
PatternMatchFailed(value, pattern) == <<"PatternMatchFailed", value, pattern>>
InvalidOperation(msg) == <<"InvalidOperation", msg>>
QuasiquoteError(msg) == <<"QuasiquoteError", msg>>
HashingError(value, typeName) == <<"HashingError", value, typeName>>

\* usize::to_string for the small counts the model meets
UsizeToString(n) ==
    CASE n = 0 -> "0" [] n = 1 -> "1" [] n = 2 -> "2" [] n = 3 -> "3" [] n = 4 -> "4"

(***************************************************************************)
(* apply_native_function: the arithmetic primitives                        *)
(***************************************************************************)
UnsupportedTypes(name, args) ==
    Err(InvalidArguments(name, "Unsupported types: " \o TypeName(args[1])
                                   \o ", " \o TypeName(args[2])))

\* the outcome of a built-in i64 operator as the outcome of the primitive
IntegerOutcome(r) == IF r[1] = "Ok" THEN Ok(VInteger(r[2])) ELSE r

\* "+" (lines 268-291)
NativeAdd(args) ==
    LET a == args[1]
        b == args[2]
    IN  CASE Len(args) # 2 -> Err(ArityMismatch("+", "2", Len(args)))
          [] Len(args) = 2 /\ a[1] = "Integer" /\ b[1] = "Integer" ->
                 LetIn(CheckedAdd(a[2], b[2]), LAMBDA s :
                       IF s[1] = "Some" THEN Ok(VInteger(s[2]))
                       ELSE Err(InvalidOperation("Integer overflow in +")))
          [] Len(args) = 2 /\ a[1] = "Float" /\ b[1] = "Float" -> Ok(F64Op("+", a, b))
          [] Len(args) = 2 /\ a[1] = "Float" /\ b[1] = "Integer" ->
                 Ok(F64Op("+", a, IntToFloat(b[2])))
          [] Len(args) = 2 /\ a[1] = "Integer" /\ b[1] = "Float" ->
                 Ok(F64Op("+", IntToFloat(a[2]), b))
          [] Len(args) = 2 /\ a[1] = "String" /\ b[1] = "String" ->
                 Ok(VString(a[2] \o b[2]))
          [] OTHER -> UnsupportedTypes("+", args)

\* "-" (lines 292-308)
NativeSub(args, checks) ==
    LET a == args[1]
        b == args[2]
    IN  CASE Len(args) # 2 -> Err(ArityMismatch("-", "2", Len(args)))
          [] Len(args) = 2 /\ a[1] = "Integer" /\ b[1] = "Integer" ->
                 IntegerOutcome(I64Op("-", a[2], b[2], checks))
          [] Len(args) = 2 /\ a[1] = "Float" /\ b[1] = "Float" -> Ok(F64Op("-", a, b))
          [] Len(args) = 2 /\ a[1] = "Float" /\ b[1] = "Integer" ->
                 Ok(F64Op("-", a, IntToFloat(b[2])))
          [] Len(args) = 2 /\ a[1] = "Integer" /\ b[1] = "Float" ->
                 Ok(F64Op("-", IntToFloat(a[2]), b))
          [] OTHER -> UnsupportedTypes("-", args)

\* "*" (lines 309-325)
NativeMul(args, checks) ==
    LET a == args[1]
        b == args[2]
    IN  CASE Len(args) # 2 -> Err(ArityMismatch("*", "2", Len(args)))
          [] Len(args) = 2 /\ a[1] = "Integer" /\ b[1] = "Integer" ->
                 IntegerOutcome(I64Op("*", a[2], b[2], checks))
          [] Len(args) = 2 /\ a[1] = "Float" /\ b[1] = "Float" -> Ok(F64Op("*", a, b))
          [] Len(args) = 2 /\ a[1] = "Float" /\ b[1] = "Integer" ->
                 Ok(F64Op("*", a, IntToFloat(b[2])))
          [] Len(args) = 2 /\ a[1] = "Integer" /\ b[1] = "Float" ->
                 Ok(F64Op("*", IntToFloat(a[2]), b))
          [] OTHER -> UnsupportedTypes("*", args)

\* "/" with its two DivisionByZero arms (lines 329-330) left out
NativeDivUnguarded(args, checks) ==
    LET a == args[1]
        b == args[2]
    IN  IF Len(args) # 2 THEN Err(ArityMismatch("/", "2", Len(args)))
        ELSE IF a[1] = "Integer" /\ b[1] = "Integer"
             THEN IntegerOutcome(I64Op("/", a[2], b[2], checks))
        ELSE IF a[1] = "Float" /\ b[1] = "Float" THEN Ok(F64Op("/", a, b))
        ELSE IF a[1] = "Float" /\ b[1] = "Integer" THEN Ok(F64Op("/", a, IntToFloat(b[2])))
        ELSE IF a[1] = "Integer" /\ b[1] = "Float" THEN Ok(F64Op("/", IntToFloat(a[2]), b))
        ELSE UnsupportedTypes("/", args)

\* "/" (lines 326-344): the arms are tried in the order of the source
NativeDiv(args, checks) ==
    LET a == args[1]
        b == args[2]
    IN  IF Len(args) # 2 THEN Err(ArityMismatch("/", "2", Len(args)))
        ELSE IF b = VInteger(I64Zero) THEN Err(DivisionByZero)
        ELSE IF b[1] = "Float" /\ AbsBelowEpsilon(b) THEN Err(DivisionByZero)
        ELSE IF a[1] = "Integer" /\ b[1] = "Integer"
             THEN IntegerOutcome(I64Op("/", a[2], b[2], checks))
        ELSE IF a[1] = "Float" /\ b[1] = "Float" THEN Ok(F64Op("/", a, b))
        ELSE IF a[1] = "Float" /\ b[1] = "Integer" THEN Ok(F64Op("/", a, IntToFloat(b[2])))
        ELSE IF a[1] = "Integer" /\ b[1] = "Float" THEN Ok(F64Op("/", IntToFloat(a[2]), b))
        ELSE UnsupportedTypes("/", args)

\* "not" (lines 437-441)
NativeNot(args) ==
    IF Len(args) # 1 THEN Err(ArityMismatch("not", "1", Len(args)))
    ELSE IF args[1][1] # "Boolean"
    THEN Err(TypeError("Boolean", TypeName(args[1]), Display(args[1])))
    ELSE Ok(VBoolean(~args[1][2]))

\* the names the match of apply_native_function has an arm for
NativeTable ==
    {"print", "+", "-", "*", "/", "==", "!=", "<", ">", "<=", ">=", "and", "or",
     "not", "mod", "cons", "car", "cdr", "list", "typeof", "null?", "len",
     "integer?", "float?", "boolean?", "string?", "symbol?", "list?", "map?",
     "set?", "function?", "primitive?"}

\* apply_native_function (lines 222-583); of its primitives the model holds
\* the arithmetic ones
ApplyNativeFunction(name, args, checks) ==
    CASE name = "+" -> NativeAdd(args)
      [] name = "-" -> NativeSub(args, checks)
      [] name = "*" -> NativeMul(args, checks)
      [] name = "/" -> NativeDiv(args, checks)
      [] name = "not" -> NativeNot(args)
      [] name \notin NativeTable ->
             Err(InvalidOperation("Unknown native function: " \o name))

(***************************************************************************)
(* Expr, Literal and Pattern (parser/ast.rs), without their source spans.  *)
(* A Map literal or Map pattern is the sequence of its entries in the      *)
(* order its FxHashMap iterates them.                                      *)
(***************************************************************************)
LInteger(i) == <<"Integer", i>>
LFloat(m, e) == <<"Float", m, e>>
LString(s) == <<"String", s>>
LBoolean(b) == <<"Boolean", b>>

ELiteral(lit) == <<"Literal", lit>>
EVariable(name) == <<"Variable", name>>
ELambda(params, body) == <<"Lambda", params, body>>
EApplication(function, arguments) == <<"Application", function, arguments>>
ELet(pattern, value, body) == <<"Let", pattern, value, body>>
EIf(cond, thenExpr, elseExpr) == <<"If", cond, thenExpr, elseExpr>>
EBinaryOp(operator, left, right) == <<"BinaryOp", operator, left, right>>
EUnaryOp(operator, operand) == <<"UnaryOp", operator, operand>>
EList(elements) == <<"List", elements>>
ESet(elements) == <<"Set", elements>>
EMap(entries) == <<"Map", entries>>
EQuote(inner) == <<"Quote", inner>>
EUnquote(inner) == <<"Unquote", inner>>
EUnquoteSplice(inner) == <<"UnquoteSplice", inner>>
EQuasiquote(inner) == <<"Quasiquote", inner>>

PVariable(name) == <<"Variable", name>>
PLiteral(lit) == <<"Literal", lit>>
PWildcard == <<"Wildcard">>
PList(pats) == <<"List", pats>>
PSet(pats) == <<"Set", pats>>
PMap(entries) == <<"Map", entries>>
PTypeAnnotated(inner) == <<"TypeAnnotated", inner>>

\* Declaration::Entity(name, type, value) with a value, and without one
DEntity(name, value) == <<"Entity", name, <<"Some", value>>>>
DEntityNoValue(name) == <<"Entity", name, <<"None">>>>

\* eval_literal (lines 784-791) and convert_literal_to_value (1126-1133)
EvalLiteral(lit) ==
    CASE lit[1] = "Integer" -> VInteger(lit[2])
      [] lit[1] = "Float" -> <<"Float", lit[2], lit[3]>>
      [] lit[1] = "String" -> VString(lit[2])
      [] lit[1] = "Boolean" -> VBoolean(lit[2])

(***************************************************************************)
(* Environment (lines 63-124).  The heap is the sequence of the frames     *)
(* allocated so far; an EnvironmentRef is the index of its frame, so two   *)
(* references are to the same frame exactly when they are equal.           *)
(***************************************************************************)
NoBindings == [n \in {} |-> VNull]

\* FxHashMap::insert on a map from names, or from Values, to Values
MapInsert(m, k, v) == [x \in DOMAIN m \cup {k} |-> IF x = k THEN v ELSE m[x]]

\* bindings.extend(temp_bindings)
MapExtend(m, t) == [x \in DOMAIN m \cup DOMAIN t |-> IF x \in DOMAIN t THEN t[x] ELSE m[x]]

\* Environment::new_global: the heap holding the one frame
NewGlobal == <<[bindings |-> NoBindings, outer |-> 0]>>

GlobalEnv == 1

\* Environment::new_extending: the reference is Len of the heap returned
NewExtending(h, outer) == Append(h, [bindings |-> NoBindings, outer |-> outer])

\* Environment::define
Define(h, env, name, value) ==
    [h EXCEPT ![env].bindings = MapInsert(@, name, value)]

RECURSIVE Lookup(_, _, _)
\* Environment::lookup
Lookup(h, env, name) ==
    IF name \in DOMAIN h[env].bindings THEN <<"Some", h[env].bindings[name]>>
    ELSE IF h[env].outer # 0 THEN Lookup(h, h[env].outer, name)
    ELSE <<"None">>

NativeNames == {"+", "-", "*", "/", "==", "!=", "<", ">", "<=", ">=", "print"}

\* populate_global_env (lines 1184-1232)
PopulateGlobalEnv(h, env) ==
    [h EXCEPT ![env].bindings =
        [n \in DOMAIN @ \cup NativeNames |-> VNative(n)]]

(***************************************************************************)
(* Hashability (lines 1310-1324) and Hash for Value (lines 1392-1448).  A  *)
(* Set value holds the set of its elements, a Map value the function from  *)
(* its keys to its values.                                                 *)
(***************************************************************************)
Range(f) == {f[x] : x \in DOMAIN f}

\* is_hashable that does not look inside a collection
IsHashableShallow(v) == v[1] \notin {"Function", "Module", "Quote"}

RECURSIVE IsHashable(_)
\* is_hashable
IsHashable(v) ==
    CASE v[1] \in {"Integer", "Float", "Boolean", "String", "Symbol", "Null", "Void"} -> TRUE
      [] v[1] = "List" -> \A i \in 1..Len(v[2]) : IsHashable(v[2][i])
      [] v[1] = "Map" -> \A k \in DOMAIN v[2] : IsHashable(k) /\ IsHashable(v[2][k])
      [] v[1] = "Set" -> \A k \in v[2] : IsHashable(k)
      [] v[1] \in {"Function", "Module", "Quote"} -> FALSE

RECURSIVE HashPanics(_)
\* whether <Value as Hash>::hash reaches one of its panic! arms: <<"Some", type>>
\* of the first it reaches, or <<"None">>
HashPanics(v) ==
    CASE v[1] \in {"Function", "Module", "Quote"} -> <<"Some", v[1]>>
      [] v[1] = "List" ->
             LET bad == {i \in 1..Len(v[2]) : HashPanics(v[2][i]) # <<"None">>}
             IN  IF bad = {} THEN <<"None">>
                 ELSE HashPanics(v[2][CHOOSE i \in bad : \A j \in bad : i <= j])
      [] v[1] = "Map" ->
             LET bad == {HashPanics(k) : k \in DOMAIN v[2]}
                            \cup {HashPanics(x) : x \in Range(v[2])}
             IN  IF bad \subseteq {<<"None">>} THEN <<"None">>
                 ELSE CHOOSE b \in bad : b # <<"None">>
      [] v[1] = "Set" ->
             LET bad == {HashPanics(k) : k \in v[2]}
             IN  IF bad \subseteq {<<"None">>} THEN <<"None">>
                 ELSE CHOOSE b \in bad : b # <<"None">>
      [] OTHER -> <<"None">>

\* FxHashMap::insert(value, ()) on the elements of a Set: hashes the value
SetInsert(elems, v) ==
    LET p == HashPanics(v)
    IN  IF p # <<"None">>
        THEN Panic("Attempted to hash non-hashable type: " \o p[2])
        ELSE Ok(elems \cup {v})

(***************************************************************************)
(* bind_pattern (lines 848-933): <<"Ok", matched, bindings>> or <<"Err", e>>*)
(***************************************************************************)
\* `if !bind_pattern(p, v, &mut temp)? { return Ok(false) }`: an Err leaves
\* at once, a mismatch gives NoMatch, a match goes on with the bindings
TryMatch(r, NoMatch, Continue(_)) ==
    IF r[1] = "Err" THEN r ELSE IF ~r[2] THEN NoMatch ELSE Continue(r[3])

RECURSIVE BindPattern(_, _, _)
RECURSIVE BindListElems(_, _, _, _)
RECURSIVE BindMapEntries(_, _, _, _)

\* the loop of the List arm over pats[i..] zipped with vals[i..]
BindListElems(pats, vals, i, temp) ==
    IF i > Len(pats) THEN <<"Ok", TRUE, temp>>
    ELSE TryMatch(BindPattern(pats[i], vals[i], temp), <<"Ok", FALSE, temp>>,
                  LAMBDA bound : BindListElems(pats, vals, i + 1, bound))

\* the loop of the Map arm over entries[i..]
BindMapEntries(entries, mapVal, i, temp) ==
    IF i > Len(entries) THEN <<"Ok", TRUE, temp>>
    ELSE LET keyValue == VString(entries[i][1])
         IN  IF ~IsHashable(keyValue)
             THEN Err(HashingError(Display(keyValue), TypeName(keyValue)))
             ELSE IF keyValue \notin DOMAIN mapVal THEN <<"Ok", FALSE, temp>>
             ELSE TryMatch(BindPattern(entries[i][2], mapVal[keyValue], temp),
                           <<"Ok", FALSE, temp>>,
                           LAMBDA bound : BindMapEntries(entries, mapVal, i + 1, bound))

\* a bind_pattern whose List arm zips without comparing the lengths, and
\* which binds straight into the caller's table
BindPatternZipOnly(pattern, value, bindings) ==
    CASE pattern[1] = "Literal" ->
             <<"Ok", pattern[2][1] = value[1] /\ EvalLiteral(pattern[2]) = value, bindings>>
      [] pattern[1] = "Wildcard" -> <<"Ok", TRUE, bindings>>
      [] pattern[1] = "Variable" ->
             <<"Ok", TRUE, MapInsert(bindings, pattern[2], value)>>
      [] pattern[1] = "List" /\ value[1] = "List" ->
             LET n == IF Len(pattern[2]) < Len(value[2])
                      THEN Len(pattern[2]) ELSE Len(value[2])
             IN  BindListElems(SubSeq(pattern[2], 1, n), value[2], 1, bindings)
      [] OTHER -> <<"Ok", FALSE, bindings>>

BindPattern(pattern, value, bindings) ==
    CASE pattern[1] = "Literal" ->
             <<"Ok", pattern[2][1] = value[1] /\ EvalLiteral(pattern[2]) = value, bindings>>
      [] pattern[1] = "Wildcard" -> <<"Ok", TRUE, bindings>>
      [] pattern[1] = "Variable" ->
             <<"Ok", TRUE, MapInsert(bindings, pattern[2], value)>>
      [] pattern[1] = "List" ->
             IF value[1] # "List" THEN <<"Ok", FALSE, bindings>>
             ELSE IF Len(pattern[2]) # Len(value[2]) THEN <<"Ok", FALSE, bindings>>
             ELSE TryMatch(BindListElems(pattern[2], value[2], 1, NoBindings),
                           <<"Ok", FALSE, bindings>>,
                           LAMBDA temp : <<"Ok", TRUE, MapExtend(bindings, temp)>>)
      [] pattern[1] = "Set" ->
             IF value[1] # "Set" THEN <<"Ok", FALSE, bindings>>
             ELSE IF Len(pattern[2]) # Cardinality(value[2]) THEN <<"Ok", FALSE, bindings>>
             ELSE Err(InvalidOperation("Set pattern matching not fully implemented"))
      [] pattern[1] = "Map" ->
             IF value[1] # "Map" THEN <<"Ok", FALSE, bindings>>
             ELSE IF Len(pattern[2]) # Cardinality(DOMAIN value[2])
                  THEN <<"Ok", FALSE, bindings>>
             ELSE TryMatch(BindMapEntries(pattern[2], value[2], 1, NoBindings),
                           <<"Ok", FALSE, bindings>>,
                           LAMBDA temp : <<"Ok", TRUE, MapExtend(bindings, temp)>>)
      [] pattern[1] = "TypeAnnotated" -> BindPattern(pattern[2], value, bindings)

(***************************************************************************)
(* eval and apply_function (lines 636-839).  Evaluation threads `st`: the  *)
(* heap of frames and the history of what it did (the trace).  A result is *)
(* [out, st] with out one of <<"Ok", v>>, <<"Err", e>>, <<"Panic", msg>>.  *)
(* `d` is the depth of the call of eval in the recursion.                  *)
(***************************************************************************)
Log(st, ev) == [st EXCEPT !.trace = Append(@, ev)]
Result(out, st) == [out |-> out, st |-> st]
IsOk(r) == r.out[1] = "Ok"

\* the `?` operator: anything but an Ok leaves the function at once
Try(r, Continue(_)) == IF ~IsOk(r) THEN r ELSE Continue(r)

RECURSIVE Eval(_, _, _, _)
RECURSIVE EvalExpr(_, _, _, _)
RECURSIVE EvalElements(_, _, _, _, _, _)
RECURSIVE EvalSetElements(_, _, _, _, _, _)
RECURSIVE EvalMapEntries(_, _, _, _, _, _)
RECURSIVE ApplyFunction(_, _, _, _)
RECURSIVE EvaluateQuasiquote(_, _, _, _)

\* `if !is_hashable(&v) { return Err(err) }  set.insert(v, ())` at `site`
CheckedInsert(elems, v, err, site, st) ==
    IF ~IsHashable(v) THEN Result(Err(err), Log(st, <<"is_hashable", v, site>>))
    ELSE Result(SetInsert(elems, v),
                Log(Log(st, <<"is_hashable", v, site>>), <<"insert", v, site>>))

\* `for elem_expr in elements { out.push(eval(elem_expr, env)?) }`: the
\* elements of a List literal, the arguments of an Application
EvalElements(exprs, i, acc, env, st, d) ==
    IF i > Len(exprs) THEN Result(Ok(acc), st)
    ELSE Try(Eval(exprs[i], env, st, d), LAMBDA r :
             EvalElements(exprs, i + 1, Append(acc, r.out[2]), env, r.st, d))

RECURSIVE InsertAll(_, _, _, _)
\* the values checked and inserted one after the other, all of them evaluated
InsertAll(vals, i, acc, st) ==
    IF i > Len(vals) THEN Result(Ok(VSet(acc)), st)
    ELSE Try(CheckedInsert(acc, vals[i],
                 HashingError(Display(vals[i]), TypeName(vals[i])), "Set", st),
             LAMBDA ins : InsertAll(vals, i + 1, ins.out[2], ins.st))

\* a Set arm in two phases: every element evaluated, then the set assembled
EvalSetElementsThenAssemble(exprs, i, acc, env, st, d) ==
    Try(EvalElements(exprs, i, <<>>, env, st, d), LAMBDA r :
        InsertAll(r.out[2], 1, acc, r.st))

\* the loop of the Set arm (lines 652-661)
EvalSetElements(exprs, i, acc, env, st, d) ==
    IF i > Len(exprs) THEN Result(Ok(VSet(acc)), st)
    ELSE Try(Eval(exprs[i], env, st, d), LAMBDA r :
         Try(CheckedInsert(acc, r.out[2],
                 HashingError(Display(r.out[2]), TypeName(r.out[2])), "Set", r.st),
             LAMBDA ins : EvalSetElements(exprs, i + 1, ins.out[2], env, ins.st, d)))

\* the loop of the Map arm (lines 674-684)
EvalMapEntries(entries, i, acc, env, st, d) ==
    IF i > Len(entries) THEN Result(Ok(VMap(acc)), st)
    ELSE LET keyValue == VString(entries[i][1])
         IN  IF ~IsHashable(keyValue)
             THEN Result(Err(HashingError(Display(keyValue), TypeName(keyValue))),
                         Log(st, <<"is_hashable", keyValue, "Map">>))
             ELSE Try(Eval(entries[i][2], env,
                           Log(st, <<"is_hashable", keyValue, "Map">>), d),
                      LAMBDA r :
                      IF HashPanics(keyValue) # <<"None">>
                      THEN Result(Panic("Attempted to hash non-hashable type: "
                                            \o HashPanics(keyValue)[2]), r.st)
                      ELSE EvalMapEntries(entries, i + 1,
                               MapInsert(acc, keyValue, r.out[2]), env,
                               Log(r.st, <<"insert", keyValue, "Map">>), d))

RECURSIVE DefineAll(_, _, _)
\* `for (name, value) in bindings { env.define(name, value) }`
DefineAll(st, env, bindings) ==
    IF DOMAIN bindings = {} THEN st
    ELSE LET name == CHOOSE n \in DOMAIN bindings : TRUE
         IN  DefineAll(Log([st EXCEPT !.heap = Define(@, env, name, bindings[name])],
                           <<"define", env, name, bindings[name]>>),
                       env, [n \in DOMAIN bindings \ {name} |-> bindings[n]])

\* `if !bind_pattern(pattern, value, &mut bindings)? { return Err(
\* PatternMatchFailed) }` (lines 709-714, 820-825), st the state it runs in
BindOrFail(pattern, value, bindings, st, Continue(_)) ==
    LetIn(BindPattern(pattern, value, bindings), LAMBDA b :
          IF b[1] = "Err" THEN Result(b, Log(st, <<"bind_pattern", pattern, value>>))
          ELSE IF ~b[2]
          THEN Result(Err(PatternMatchFailed(Display(value), DebugPattern(pattern))),
                      Log(st, <<"bind_pattern", pattern, value>>))
          ELSE Continue(b[3]))

RECURSIVE BindParams(_, _, _, _, _)
\* the loop over params.iter().zip(args.iter()) (lines 819-826)
BindParams(params, args, i, bindings, st) ==
    IF i > Len(params) \/ i > Len(args) THEN Result(Ok(bindings), st)
    ELSE BindOrFail(params[i], args[i], bindings, st, LAMBDA bound :
             BindParams(params, args, i + 1, bound,
                        Log(st, <<"bind_pattern", params[i], args[i]>>)))

\* a capture that copies the frame: the closure refers to the copy
CaptureEnvByCopy(h, env) == [heap |-> Append(h, h[env]), env |-> Len(h) + 1]

\* Rc::clone(&env) (line 692): the closure refers to the frame itself
CaptureEnv(h, env) == [heap |-> h, env |-> env]
\* Environment::new_extending as evaluation performs it: the new reference
\* is the index of the frame appended to the heap
NewFrame(st, outer) ==
    Log([st EXCEPT !.heap = NewExtending(@, outer)],
        <<"new_extending", Len(st.heap) + 1, outer>>)

\* the Closure arm with the arity compared after the frame and the binding
ApplyClosureArityLast(params, body, capturedEnv, args, st, d) ==
    LetIn(NewFrame(st, capturedEnv), LAMBDA st1 :
    Try(BindParams(params, args, 1, NoBindings, st1), LAMBDA b :
        IF Len(params) # Len(args)
        THEN Result(Err(ArityMismatch("Closure", UsizeToString(Len(params)),
                                      Len(args))), b.st)
        ELSE Eval(body, Len(st1.heap), DefineAll(b.st, Len(st1.heap), b.out[2]),
                  d + 1)))

\* the Closure arm with the parameters defined in the captured frame itself
ApplyClosureInCaptured(params, body, capturedEnv, args, st, d) ==
    IF Len(params) # Len(args)
    THEN Result(Err(ArityMismatch("Closure", UsizeToString(Len(params)), Len(args))), st)
    ELSE Try(BindParams(params, args, 1, NoBindings, st), LAMBDA b :
             Eval(body, capturedEnv, DefineAll(b.st, capturedEnv, b.out[2]), d + 1))

\* the Closure arm of apply_function (lines 805-832)
ApplyClosure(params, body, capturedEnv, args, st, d) ==
    IF Len(params) # Len(args)
    THEN Result(Err(ArityMismatch("Closure", UsizeToString(Len(params)), Len(args))), st)
    ELSE LetIn(NewFrame(st, capturedEnv), LAMBDA st1 :
         Try(BindParams(params, args, 1, NoBindings, st1), LAMBDA b :
             Eval(body, Len(st1.heap), DefineAll(b.st, Len(st1.heap), b.out[2]),
                  d + 1)))

\* apply_function (lines 794-839), called by the eval at depth d
ApplyFunction(func, args, st, d) ==
    LET st0 == Log(st, <<"apply", d, func, args>>)
    IN  IF func[1] # "Function" THEN Result(Err(NotAFunction(Display(func))), st0)
        ELSE IF func[2][1] = "Closure"
        THEN ApplyClosure(func[2][2], func[2][3], func[2][4], args, st0, d)
        ELSE Result(ApplyNativeFunction(func[2][2], args, overflowChecks), st0)

\* the Application arm with the arguments evaluated before the callee
EvalApplicationArgsFirst(expr, env, st, d) ==
    Try(EvalElements(expr[3], 1, <<>>, env, st, d + 1), LAMBDA as :
    Try(Eval(expr[2], env, as.st, d + 1), LAMBDA f :
        ApplyFunction(f.out[2], as.out[2], f.st, d)))

\* the Application arm (lines 695-702)
EvalApplication(expr, env, st, d) ==
    Try(Eval(expr[2], env, st, d + 1), LAMBDA f :
    Try(EvalElements(expr[3], 1, <<>>, env, f.st, d + 1), LAMBDA as :
        ApplyFunction(f.out[2], as.out[2], as.st, d)))

\* a Let that binds in the enclosing frame and evaluates the body there
EvalLetInEnclosing(expr, env, st, d) ==
    Try(Eval(expr[3], env, st, d + 1), LAMBDA v :
        BindOrFail(expr[2], v.out[2], NoBindings, v.st, LAMBDA bound :
            Eval(expr[4], env,
                 DefineAll(Log(v.st, <<"bind_pattern", expr[2], v.out[2]>>),
                           env, bound),
                 d + 1)))

\* the Let arm (lines 703-721)
EvalLet(expr, env, st, d) ==
    Try(Eval(expr[3], env, st, d + 1), LAMBDA v :
    LetIn(NewFrame(v.st, env), LAMBDA st1 :
    BindOrFail(expr[2], v.out[2], NoBindings, st1, LAMBDA bound :
        Eval(expr[4], Len(st1.heap),
             DefineAll(Log(st1, <<"bind_pattern", expr[2], v.out[2]>>),
                       Len(st1.heap), bound),
             d + 1))))

\* an If that evaluates both branches before it looks at the condition
EvalIfBothBranches(expr, env, st, d) ==
    Try(Eval(expr[2], env, st, d + 1), LAMBDA c :
        Try(Eval(expr[3], env, c.st, d + 1), LAMBDA t :
            Try(Eval(expr[4], env, t.st, d + 1), LAMBDA e :
                IF c.out[2] = VBoolean(TRUE) THEN Result(t.out, e.st)
                ELSE Result(e.out, e.st))))

\* the If arm (lines 722-733)
EvalIf(expr, env, st, d) ==
    Try(Eval(expr[2], env, st, d + 1), LAMBDA c :
        IF c.out[2] = VBoolean(TRUE) THEN Eval(expr[3], env, c.st, d + 1)
        ELSE IF c.out[2] = VBoolean(FALSE) THEN Eval(expr[4], env, c.st, d + 1)
        ELSE Result(Err(TypeError("Boolean", TypeName(c.out[2]), Display(c.out[2]))),
                    c.st))

\* an operator that is always the native one, whatever its name is bound to
ApplyOperatorNativeOnly(operator, args, env, st, d) ==
    Result(ApplyNativeFunction(operator, args, overflowChecks), st)

\* `match env.borrow().lookup(operator)` of the BinaryOp and UnaryOp arms
ApplyOperator(operator, args, env, st, d) ==
    LET found == Lookup(st.heap, env, operator)
    IN  IF found = <<"None">>
        THEN Result(ApplyNativeFunction(operator, args, overflowChecks), st)
        ELSE IF found[2][1] = "Function" THEN ApplyFunction(found[2], args, st, d)
        ELSE Result(Err(NotAFunction(Display(found[2]))), st)

\* a BinaryOp arm that has no case for |>: it is looked up like the others
EvalBinaryOpNoPipe(expr, env, st, d) ==
    Try(Eval(expr[3], env, st, d + 1), LAMBDA l :
        Try(Eval(expr[4], env, l.st, d + 1), LAMBDA r :
            ApplyOperator(expr[2], <<l.out[2], r.out[2]>>, env, r.st, d)))

\* the BinaryOp arm (lines 734-753)
EvalBinaryOp(expr, env, st, d) ==
    Try(Eval(expr[3], env, st, d + 1), LAMBDA l :
    Try(Eval(expr[4], env, l.st, d + 1), LAMBDA r :
        IF expr[2] = "|>"
        THEN ApplyFunction(r.out[2], <<l.out[2]>>, r.st, d)
        ELSE ApplyOperator(expr[2], <<l.out[2], r.out[2]>>, env, r.st, d)))

\* the UnaryOp arm (lines 754-766)
EvalUnaryOp(expr, env, st, d) ==
    Try(Eval(expr[3], env, st, d + 1), LAMBDA o :
        ApplyOperator(expr[2], <<o.out[2]>>, env, o.st, d))

\* the match of eval (lines 637-780)
EvalExpr(expr, env, st, d) ==
    CASE expr[1] = "Literal" -> Result(Ok(EvalLiteral(expr[2])), st)
      [] expr[1] = "Variable" ->
             LET found == Lookup(st.heap, env, expr[2])
             IN  IF found = <<"None">> THEN Result(Err(UnboundVariable(expr[2])), st)
                 ELSE Result(Ok(found[2]), st)
      [] expr[1] = "Set" -> EvalSetElements(expr[2], 1, {}, env, st, d + 1)
      [] expr[1] = "List" ->
             Try(EvalElements(expr[2], 1, <<>>, env, st, d + 1),
                 LAMBDA r : Result(Ok(VList(r.out[2])), r.st))
      [] expr[1] = "Map" -> EvalMapEntries(expr[2], 1, NoBindings, env, st, d + 1)
      [] expr[1] = "Lambda" ->
             LET c == CaptureEnv(st.heap, env)
             IN  Result(Ok(VClosure(expr[2], expr[3], c.env)),
                        [st EXCEPT !.heap = c.heap])
      [] expr[1] = "Application" -> EvalApplication(expr, env, st, d)
      [] expr[1] = "Let" -> EvalLet(expr, env, st, d)
      [] expr[1] = "If" -> EvalIf(expr, env, st, d)
      [] expr[1] = "BinaryOp" -> EvalBinaryOp(expr, env, st, d)
      [] expr[1] = "UnaryOp" -> EvalUnaryOp(expr, env, st, d)
      [] expr[1] = "Quote" -> Result(Ok(VQuote(expr[2])), st)
      [] expr[1] = "Unquote" ->
             Result(Err(QuasiquoteError(
                 "Unquote ('~') is only valid inside a quasiquote ('`')")), st)
      [] expr[1] = "UnquoteSplice" ->
             Result(Err(QuasiquoteError(
                 "Unquote-splice ('~@') is only valid inside a quasiquote ('`')")), st)
      [] expr[1] = "Quasiquote" -> EvaluateQuasiquote(expr[2], env, st, d)

\* eval, with its call and its return recorded
Eval(expr, env, st, d) ==
    LetIn(EvalExpr(expr, env, Log(st, <<"eval", d, expr, env>>), d), LAMBDA r :
          Result(r.out, Log(r.st, <<"exit", d, expr, env, r.out>>)))

(***************************************************************************)
(* evaluate_quasiquote (lines 936-1123), convert_pattern_to_value          *)
(* (lines 1135-1181).  An error text is cut where a backquote follows.     *)
(***************************************************************************)
RECURSIVE SetToSeq(_)
\* the elements of a set in the order its FxHashMap iterates them
SetToSeq(s) ==
    IF s = {} THEN <<>>
    ELSE LET x == CHOOSE y \in s : TRUE IN <<x>> \o SetToSeq(s \ {x})

\* the `?` operator on a Result<Value, EvalError>
TryValue(o, Continue(_)) == IF o[1] # "Ok" THEN o ELSE Continue(o[2])

RECURSIVE ConvertPatternToValue(_)
RECURSIVE ConvertPatterns(_, _, _)
RECURSIVE ConvertSetPatterns(_, _, _)
RECURSIVE ConvertMapPatterns(_, _, _)

ConvertPatterns(pats, i, acc) ==
    IF i > Len(pats) THEN Ok(VList(acc))
    ELSE TryValue(ConvertPatternToValue(pats[i]),
                  LAMBDA v : ConvertPatterns(pats, i + 1, Append(acc, v)))

ConvertSetPatterns(pats, i, acc) ==
    IF i > Len(pats) THEN Ok(VSet(acc))
    ELSE TryValue(ConvertPatternToValue(pats[i]), LAMBDA v :
             IF ~IsHashable(v) THEN Err(HashingError(Display(v), TypeName(v)))
             ELSE TryValue(SetInsert(acc, v),
                           LAMBDA set : ConvertSetPatterns(pats, i + 1, set)))

ConvertMapPatterns(entries, i, acc) ==
    IF i > Len(entries) THEN Ok(VMap(acc))
    ELSE LET keyValue == VSymbol(entries[i][1])
         IN  IF ~IsHashable(keyValue)
             THEN Err(HashingError(Display(keyValue), TypeName(keyValue)))
             ELSE TryValue(ConvertPatternToValue(entries[i][2]), LAMBDA v :
                      ConvertMapPatterns(entries, i + 1, MapInsert(acc, keyValue, v)))

ConvertPatternToValue(pattern) ==
    CASE pattern[1] = "Variable" -> Ok(VSymbol(pattern[2]))
      [] pattern[1] = "Literal" -> Ok(EvalLiteral(pattern[2]))
      [] pattern[1] = "Wildcard" -> Ok(VSymbol("_"))
      [] pattern[1] = "List" -> ConvertPatterns(pattern[2], 1, <<>>)
      [] pattern[1] = "Set" -> ConvertSetPatterns(pattern[2], 1, {})
      [] pattern[1] = "Map" -> ConvertMapPatterns(pattern[2], 1, NoBindings)
      [] pattern[1] = "TypeAnnotated" -> ConvertPatternToValue(pattern[2])

RECURSIVE QuasiquoteAll(_, _, _, _, _, _)
\* evaluate_quasiquote of exprs[i..] in turn, appended to acc
QuasiquoteAll(exprs, i, acc, env, st, d) ==
    IF i > Len(exprs) THEN Result(Ok(VList(acc)), st)
    ELSE Try(EvaluateQuasiquote(exprs[i], env, st, d), LAMBDA r :
             QuasiquoteAll(exprs, i + 1, Append(acc, r.out[2]), env, r.st, d))

\* the value of one item of a quasiquoted List or Set: `eval(inner, env)?`
\* under ~ and ~@, `evaluate_quasiquote(item, env)?` otherwise
QuasiquoteItem(item, env, st, d) ==
    IF item[1] \in {"UnquoteSplice", "Unquote"}
    THEN Eval(item[2], env, st, d + 1)
    ELSE EvaluateQuasiquote(item, env, st, d)

RECURSIVE QuasiquoteListItemsNested(_, _, _, _, _, _)
\* a List arm that pushes the value of a ~@ as one element, like that of a ~
QuasiquoteListItemsNested(items, i, acc, env, st, d) ==
    IF i > Len(items) THEN Result(Ok(VList(acc)), st)
    ELSE Try(QuasiquoteItem(items[i], env, st, d), LAMBDA r :
             QuasiquoteListItemsNested(items, i + 1, Append(acc, r.out[2]), env, r.st, d))

RECURSIVE QuasiquoteListItems(_, _, _, _, _, _)
\* the loop of the List arm (lines 943-971)
QuasiquoteListItems(items, i, acc, env, st, d) ==
    IF i > Len(items) THEN Result(Ok(VList(acc)), st)
    ELSE Try(QuasiquoteItem(items[i], env, st, d), LAMBDA r :
             IF items[i][1] # "UnquoteSplice"
             THEN QuasiquoteListItems(items, i + 1, Append(acc, r.out[2]), env, r.st, d)
             ELSE IF r.out[2][1] = "List"
             THEN QuasiquoteListItems(items, i + 1, acc \o r.out[2][2], env, r.st, d)
             ELSE IF r.out[2][1] = "Set"
             THEN Result(Err(QuasiquoteError("Cannot splice Set (~@) into List")),
                         r.st)
             ELSE Result(Err(QuasiquoteError("Cannot splice value of type "
                             \o TypeName(r.out[2]) \o " (need a List)")), r.st))

RECURSIVE SpliceIntoSet(_, _, _, _, _, _)
\* the loops at lines 987-994 and 997-1005 over the spliced elements
SpliceIntoSet(vals, i, acc, msg, site, st) ==
    IF i > Len(vals) THEN Result(Ok(acc), st)
    ELSE Try(CheckedInsert(acc, vals[i], QuasiquoteError(msg), site, st),
             LAMBDA ins : SpliceIntoSet(vals, i + 1, ins.out[2], msg, site, ins.st))

\* what the Set arm does with the value v of one item (lines 980-1034)
InsertSetItem(item, v, acc, st) ==
    IF item[1] # "UnquoteSplice"
    THEN CheckedInsert(acc, v, HashingError(Display(v), TypeName(v)),
                       IF item[1] = "Unquote" THEN "Unquote" ELSE "Quasiquote", st)
    ELSE IF v[1] = "Set"
    THEN SpliceIntoSet(SetToSeq(v[2]), 1, acc,
                       "~@ Set in Set requires hashable elements",
                       "UnquoteSplice Set", st)
    ELSE IF v[1] = "List"
    THEN SpliceIntoSet(v[2], 1, acc,
                       "~@ List into Set requires hashable elements",
                       "UnquoteSplice List", st)
    ELSE Result(Err(QuasiquoteError(
                    "~@ in Set requires a Set or List value, found " \o TypeName(v))),
                st)

RECURSIVE QuasiquoteSetItems(_, _, _, _, _, _)
\* the loop of the Set arm (lines 977-1036)
QuasiquoteSetItems(items, i, acc, env, st, d) ==
    IF i > Len(items) THEN Result(Ok(VSet(acc)), st)
    ELSE Try(QuasiquoteItem(items[i], env, st, d), LAMBDA r :
         Try(InsertSetItem(items[i], r.out[2], acc, r.st), LAMBDA ins :
             QuasiquoteSetItems(items, i + 1, ins.out[2], env, ins.st, d)))

RECURSIVE QuasiquoteMapEntries(_, _, _, _, _, _)
\* the loop of the Map arm (lines 1042-1066)
QuasiquoteMapEntries(entries, i, acc, env, st, d) ==
    IF i > Len(entries) THEN Result(Ok(VMap(acc)), st)
    ELSE LET keyVal == VSymbol(entries[i][1])
             st1 == Log(st, <<"is_hashable", keyVal, "Quasiquote Map">>)
         IN  IF ~IsHashable(keyVal)
             THEN Result(Err(HashingError(Display(keyVal), TypeName(keyVal))), st1)
             ELSE IF entries[i][2][1] = "UnquoteSplice"
             THEN Result(Err(QuasiquoteError(
                 "Unquote-splice (~@) not supported directly as map value in quasiquote")),
                 st1)
             ELSE Try(IF entries[i][2][1] = "Unquote"
                      THEN Eval(entries[i][2][2], env, st1, d + 1)
                      ELSE EvaluateQuasiquote(entries[i][2], env, st1, d),
                      LAMBDA r :
                      IF HashPanics(keyVal) # <<"None">>
                      THEN Result(Panic("Attempted to hash non-hashable type: "
                                            \o HashPanics(keyVal)[2]), r.st)
                      ELSE QuasiquoteMapEntries(entries, i + 1,
                               MapInsert(acc, keyVal, r.out[2]), env,
                               Log(r.st, <<"insert", keyVal, "Quasiquote Map">>), d))

\* Value::List(smallvec![Symbol(head), first?, evaluate_quasiquote(rest)?...])
QuasiquoteForm(head, first, rest, env, st, d) ==
    IF first[1] # "Ok" THEN Result(first, st)
    ELSE QuasiquoteAll(rest, 1, <<VSymbol(head)>> \o first[2], env, st, d)

EvaluateQuasiquote(expr, env, st, d) ==
    CASE expr[1] = "Literal" -> Result(Ok(EvalLiteral(expr[2])), st)
      [] expr[1] = "Variable" -> Result(Ok(VSymbol(expr[2])), st)
      [] expr[1] = "List" -> QuasiquoteListItems(expr[2], 1, <<>>, env, st, d)
      [] expr[1] = "Set" -> QuasiquoteSetItems(expr[2], 1, {}, env, st, d)
      [] expr[1] = "Map" -> QuasiquoteMapEntries(expr[2], 1, NoBindings, env, st, d)
      [] expr[1] = "Unquote" -> Eval(expr[2], env, st, d + 1)
      [] expr[1] = "UnquoteSplice" ->
             Result(Err(QuasiquoteError(
                 "Unquote-splice (~@) cannot be at the top level of a quasiquote")), st)
      [] expr[1] = "BinaryOp" ->
             QuasiquoteForm(expr[2], Ok(<<>>), <<expr[3], expr[4]>>, env, st, d)
      [] expr[1] = "UnaryOp" -> QuasiquoteForm(expr[2], Ok(<<>>), <<expr[3]>>, env, st, d)
      [] expr[1] = "If" ->
             QuasiquoteForm("if", Ok(<<>>), <<expr[2], expr[3], expr[4]>>, env, st, d)
      [] expr[1] = "Let" ->
             QuasiquoteForm("let",
                            TryValue(ConvertPatternToValue(expr[2]),
                                     LAMBDA p : Ok(<<p>>)),
                            <<expr[3], expr[4]>>, env, st, d)
      [] expr[1] = "Lambda" ->
             QuasiquoteForm("lambda",
                            TryValue(ConvertPatterns(expr[2], 1, <<>>),
                                     LAMBDA ps : Ok(<<ps>>)),
                            <<expr[3]>>, env, st, d)
      [] expr[1] = "Application" ->
             QuasiquoteAll(<<expr[2]>> \o expr[3], 1, <<>>, env, st, d)
      [] expr[1] = "Quote" -> QuasiquoteForm("quote", Ok(<<>>), <<expr[2]>>, env, st, d)
      [] expr[1] = "Quasiquote" ->
             QuasiquoteForm("quasiquote", Ok(<<>>), <<expr[2]>>, env, st, d)

(***************************************************************************)
(* evaluate_declaration (lines 586-633)                                    *)
(***************************************************************************)
DFunction(name, body) == <<"Function", name, body>>
DOperation(name) == <<"Operation", name>>
DType(name) == <<"Type", name>>
DDependency(import) == <<"Dependency", import>>

\* env.define(name, value) as evaluation performs it
DefineIn(st, env, name, value) ==
    Log([st EXCEPT !.heap = Define(@, env, name, value)], <<"define", env, name, value>>)

\* extract_params_from_signature (lines 842-845)
ExtractParamsFromSignature == <<>>

EvaluateDeclarationInGlobal(declaration, env, st) ==
    CASE declaration[1] = "Entity" ->
             Try(IF declaration[3][1] = "Some"
                 THEN Eval(declaration[3][2], env, st, 0)
                 ELSE Result(Ok(VNull), st),
                 LAMBDA r :
                 Result(Ok(<<>>), DefineIn(r.st, GlobalEnv, declaration[2], r.out[2])))
      [] declaration[1] = "Function" ->
             Result(Ok(<<>>), DefineIn(st, GlobalEnv, declaration[2],
                        VClosure(ExtractParamsFromSignature, declaration[3], GlobalEnv)))
      [] declaration[1] = "Type" ->
             Result(Ok(<<>>), DefineIn(st, GlobalEnv, declaration[2],
                                       VSymbol("type " \o declaration[2])))
      [] declaration[1] = "Operation" ->
             Result(Ok(<<>>), DefineIn(st, GlobalEnv, declaration[2],
                                       VSymbol("op " \o declaration[2])))
      [] declaration[1] = "Dependency" -> Result(Ok(<<>>), st)

EvaluateDeclaration(declaration, env, st) ==
    CASE declaration[1] = "Entity" ->
             Try(IF declaration[3][1] = "Some"
                 THEN Eval(declaration[3][2], env, st, 0)
                 ELSE Result(Ok(VNull), st),
                 LAMBDA r :
                 Result(Ok(<<>>), DefineIn(r.st, env, declaration[2], r.out[2])))
      [] declaration[1] = "Function" ->
             Result(Ok(<<>>), DefineIn(st, env, declaration[2],
                        VClosure(ExtractParamsFromSignature, declaration[3], env)))
      [] declaration[1] = "Type" ->
             Result(Ok(<<>>), DefineIn(st, env, declaration[2],
                                       VSymbol("type " \o declaration[2])))
      [] declaration[1] = "Operation" ->
             Result(Ok(<<>>), DefineIn(st, env, declaration[2],
                                       VSymbol("op " \o declaration[2])))
      [] declaration[1] = "Dependency" -> Result(Ok(<<>>), st)


(***************************************************************************)
(* parse_pratt_expr_with_context (parser/mod.rs lines 603-760): the flat   *)
(* sequence of pairs of an expression, primaries and operator tokens, is   *)
(* folded into one Expr by the PrattParser of create_pratt_parser.  A      *)
(* pair is <<rule, text>>, for a primary <<"primary", inner pair>>.  Spans   *)
(* and locations are left out of diagnostics and errors.  The context is   *)
(* [error_recovery, max_errors, diagnostics].                              *)
(***************************************************************************)
PrimaryPair(inner) == <<"primary", inner>>
IdentifierPair(name) == <<"identifier", name>>
ExprPair(pairs) == <<"expr", pairs>>
OperatorPair(rule, text) == <<rule, text>>

\* the prefix operators (line 563)
PrattPrefixRules == {"op_not", "op_neg", "op_unquote"}

\* the right-associative infix operators (line 565)
PrattRightRules == {"op_pipe"}

\* the binding power of an operator: ten for each call of .op(), in the order
\* of create_pratt_parser (lines 541-566)
PrattPrecedence(rule) ==
    CASE rule = "op_colon" -> 10
      [] rule = "op_or" -> 20
      [] rule = "op_and" -> 30
      [] rule \in {"op_eq", "op_neq", "op_lt", "op_gt", "op_lte", "op_gte"} -> 40
      [] rule \in {"op_add", "op_sub"} -> 50
      [] rule \in {"op_mul", "op_div"} -> 60
      [] rule \in PrattPrefixRules -> 70
      [] rule = "op_pipe" -> 80

\* ParserConfig::default (lines 239-246)
DefaultMaxErrors == 10

\* ParserContext::new (lines 249-257) and with_recovery, with_config
NewParserContext ==
    [error_recovery |-> FALSE, max_errors |-> DefaultMaxErrors, diagnostics |-> <<>>]
WithRecovery(context) == [context EXCEPT !.error_recovery = TRUE]
WithConfig(context, max_errors) == [context EXCEPT !.max_errors = max_errors]

\* DiagnosticsCollector::add_diagnostic (lines 148-150)
AddDiagnostic(context, message) ==
    [context EXCEPT !.diagnostics = Append(@, message)]

\* ParseError::UnexpectedToken, ParseError::SyntaxError and their Display
UnexpectedToken(expected, found) == <<"UnexpectedToken", expected, found>>
SyntaxError(message) == <<"SyntaxError", message>>
DisplayParseError(error) ==
    IF error[1] = "SyntaxError" THEN "Syntax Error: " \o error[2]
    ELSE "Unexpected Token: expected " \o error[2] \o ", found " \o error[3]

\* ParserContext::record_error (lines 269-294)
RecordError(context, error) ==
    IF Len(context.diagnostics) >= context.max_errors THEN context
    ELSE IF error[1] = "SyntaxError" THEN AddDiagnostic(context, error[2])
    ELSE AddDiagnostic(context, DisplayParseError(error))

\* the placeholder of recovery
ErrorPlaceholder == EVariable("_error_")

\* an Expr or an error with the context as it is left
Parsed(out, context) == [out |-> out, context |-> context]

\* parse_primary_expr_with_context (lines 794-837): its match has the
\* fallback arm only
ParsePrimaryExprWithContext(pair, context) ==
    IF context.error_recovery
    THEN Parsed(Ok(ErrorPlaceholder),
                AddDiagnostic(context, "Unexpected expression type: " \o pair[1]))
    ELSE Parsed(Err(UnexpectedToken("primary expression", pair[1])), context)

\* map_primary (lines 611-650)
MapPrimary(primary, context) ==
    CASE primary[1] = "primary" -> ParsePrimaryExprWithContext(primary, context)
      [] primary[1] = "identifier" -> Parsed(Ok(EVariable(primary[2])), context)
      [] OTHER ->
             IF context.error_recovery
             THEN Parsed(Ok(ErrorPlaceholder),
                         AddDiagnostic(context, "Unexpected token: " \o primary[1]))
             ELSE Parsed(Err(UnexpectedToken("expression", primary[1])), context)

\* map_prefix (lines 651-678): whatever the operator, a UnaryOp of its text
MapPrefix(op, rhs, context) ==
    IF rhs[1] = "Ok" THEN Parsed(Ok(EUnaryOp(op[2], rhs[2])), context)
    ELSE IF context.error_recovery
    THEN Parsed(Ok(EUnaryOp(op[2], ErrorPlaceholder)),
                AddDiagnostic(context, "Invalid expression after " \o op[2]))
    ELSE Parsed(rhs, context)

\* map_infix (lines 679-751)
MapInfix(lhs, op, rhs, context) ==
    IF lhs[1] = "Ok" /\ rhs[1] = "Ok"
    THEN Parsed(Ok(EBinaryOp(op[2], lhs[2], rhs[2])), context)
    ELSE IF context.error_recovery
    THEN CASE lhs[1] = "Err" /\ rhs[1] = "Err" ->
                  Parsed(Ok(ErrorPlaceholder),
                         AddDiagnostic(context,
                             "Invalid expressions around operator " \o op[2]))
           [] lhs[1] = "Err" /\ rhs[1] = "Ok" ->
                  Parsed(Ok(EBinaryOp(op[2], ErrorPlaceholder, rhs[2])),
                         AddDiagnostic(context,
                             "Invalid expression before operator " \o op[2]))
           [] lhs[1] = "Ok" /\ rhs[1] = "Err" ->
                  Parsed(Ok(EBinaryOp(op[2], lhs[2], ErrorPlaceholder)),
                         AddDiagnostic(context,
                             "Invalid expression after operator " \o op[2]))
    ELSE IF lhs[1] = "Err" THEN Parsed(lhs, context)
    ELSE Parsed(rhs, context)

\* a folded operand: what the closures returned, the position of the next
\* pair and the context
At(parsed, pos) == [out |-> parsed.out, pos |-> pos, context |-> parsed.context]

RECURSIVE PrattExpr(_, _, _, _)
RECURSIVE PrattClimb(_, _, _)

\* the binding power of the pair at pos, 0 at the end of the pairs
PrattLbp(pairs, pos) == IF pos > Len(pairs) THEN 0 ELSE PrattPrecedence(pairs[pos][1])

\* a prefix operator with its operand, or a primary
PrattNud(pairs, pos, context) ==
    IF pairs[pos][1] \in PrattPrefixRules
    THEN LetIn(PrattExpr(pairs, pos + 1, PrattPrecedence(pairs[pos][1]) - 1, context),
               LAMBDA rhs : At(MapPrefix(pairs[pos], rhs.out, rhs.context), rhs.pos))
    ELSE At(MapPrimary(pairs[pos], context), pos + 1)

\* the infix operator at lhs.pos with its right operand
PrattLed(pairs, lhs) ==
    LetIn(PrattExpr(pairs, lhs.pos + 1,
                    IF pairs[lhs.pos][1] \in PrattRightRules
                    THEN PrattPrecedence(pairs[lhs.pos][1]) - 1
                    ELSE PrattPrecedence(pairs[lhs.pos][1]),
                    lhs.context),
          LAMBDA rhs : At(MapInfix(lhs.out, pairs[lhs.pos], rhs.out, rhs.context),
                          rhs.pos))

\* while the next operator binds tighter than rbp it takes lhs as its left operand
PrattClimb(pairs, lhs, rbp) ==
    IF rbp < PrattLbp(pairs, lhs.pos)
    THEN PrattClimb(pairs, PrattLed(pairs, lhs), rbp)
    ELSE lhs

PrattExpr(pairs, pos, rbp, context) ==
    PrattClimb(pairs, PrattNud(pairs, pos, context), rbp)

\* parse_pratt_expr_with_context:
\* pratt_parser.map_primary(..).map_prefix(..).map_infix(..).parse(pairs),
\* then the match on its result (lines 754-791)
ParsePrattExprWithContext(pairs, context) ==
    LetIn(PrattExpr(pairs, 1, 0, context),
          LAMBDA result :
          IF result.out[1] = "Ok" THEN Parsed(result.out, result.context)
          ELSE IF result.context.error_recovery
          THEN Parsed(Ok(ErrorPlaceholder),
                      AddDiagnostic(result.context,
                          "Parse error: " \o DisplayParseError(result.out[2])))
          ELSE Parsed(Err(SyntaxError("Failed to parse expression: "
                                          \o DisplayParseError(result.out[2]))),
                      result.context))

\* parse_expr_with_context (lines 569-584)
ParseExprWithContext(pair, context) ==
    IF pair[1] = "expr" THEN ParsePrattExprWithContext(pair[2], context)
    ELSE ParsePrimaryExprWithContext(pair, context)

\* parse_expr (lines 1933-1947): the context is made here and dropped with
\* its diagnostics when the function returns
ParseExprContext(pair) == ParseExprWithContext(pair, WithRecovery(NewParserContext))
ParseExpr(pair) == ParseExprContext(pair).out

(***************************************************************************)
(* The diagnostic synthesizer: enhance_pest_error (error_reporting.rs      *)
(* lines 72-184) and ParseError::from_pest (errors.rs lines 409-471).      *)
(* A text is a sequence of characters.  Of a diagnostic the variant, its   *)
(* message, the expected and found descriptions and the span are kept; the *)
(* help text and the suggestion decide nothing here and are left out.      *)
(***************************************************************************)
\* pest::error::InputLocation
InputPos(p) == <<"Pos", p>>
InputSpan(s, e) == <<"Span", s, e>>

\* pest::error::ErrorVariant
ParsingError(positives, negatives) == <<"ParsingError", positives, negatives>>
CustomError(message) == <<"CustomError", message>>

\* (offset, length).into() for SourceSpan
SourceSpan(offset, len) == [offset |-> offset, len |-> len]

\* the span of error.location
SpanOfLocation(location) ==
    IF location[1] = "Pos" THEN SourceSpan(location[2], 0)
    ELSE SourceSpan(location[2], location[3] - location[2])

RECURSIVE Concat(_)
\* the String of a sequence of characters
Concat(chars) == IF chars = <<>> THEN "" ELSE chars[1] \o Concat(Tail(chars))

RECURSIVE TrimStart(_)
TrimStart(chars) ==
    IF chars # <<>> /\ chars[1] = " " THEN TrimStart(Tail(chars)) ELSE chars

RECURSIVE TrimEnd(_)
TrimEnd(chars) ==
    IF chars # <<>> /\ chars[Len(chars)] = " "
    THEN TrimEnd(SubSeq(chars, 1, Len(chars) - 1)) ELSE chars

\* str::trim
Trim(chars) == Concat(TrimEnd(TrimStart(chars)))

\* input.get(span.offset()..span.offset() + span.len())
\*      .unwrap_or("<end of input>").trim()
FoundText(input, span) ==
    IF span.offset + span.len <= Len(input)
    THEN Trim(SubSeq(input, span.offset + 1, span.offset + span.len))
    ELSE "<end of input>"

RECURSIVE JoinWith(_, _)
\* Vec<String>::join(separator)
JoinWith(strings, separator) ==
    IF strings = <<>> THEN ""
    ELSE IF Len(strings) = 1 THEN strings[1]
    ELSE strings[1] \o separator \o JoinWith(Tail(strings), separator)

\* format!("'{:?}'", r) over the rules
DebugRules(rules) == [i \in 1..Len(rules) |-> "'" \o rules[i] \o "'"]

\* friendly_rule_name (errors.rs lines 510-557)
FriendlyRuleName(rule) ==
    CASE rule = "expr" -> "an expression"
      [] rule = "identifier" -> "an identifier"
      [] OTHER -> "a " \o rule

FriendlyRules(rules) == [i \in 1..Len(rules) |-> FriendlyRuleName(rules[i])]

Diagnostic(variant, message, expected, found, span) ==
    [variant |-> variant, message |-> message, expected |-> expected,
     found |-> found, span |-> span]

\* found_desc of enhance_pest_error (lines 110-123)
FoundDesc(foundText, span, negatives) ==
    IF foundText # "" /\ span.len > 0 THEN "'" \o foundText \o "'"
    ELSE IF negatives # <<>> THEN JoinWith(DebugRules(negatives), ", ")
    ELSE IF foundText = "<end of input>" THEN "end of input"
    ELSE "an unexpected token"

\* the ParsingError arm of enhance_pest_error (lines 95-174)
EnhanceParsingError(positives, negatives, input, span) ==
    LetIn(<<JoinWith(DebugRules(positives), " or "), FoundText(input, span)>>,
          LAMBDA t :
          IF positives = <<>> /\ negatives = <<>>
          THEN Diagnostic("SyntaxError", "Unknown syntax error", "", "", span)
          ELSE IF positives = <<>>
          THEN Diagnostic("UnexpectedToken", "", "something else",
                          FoundDesc(t[2], span, negatives), span)
          ELSE IF span.len = 0 /\ t[2] = "<end of input>"
          THEN Diagnostic("MissingToken", "", t[1], "", SourceSpan(Len(input), 0))
          ELSE IF span.len = 0
          THEN Diagnostic("MissingToken", "", t[1], "", span)
          ELSE Diagnostic("UnexpectedToken", "", t[1],
                          FoundDesc(t[2], span, negatives), span))

\* enhance_pest_error
EnhancePestError(error, input) ==
    IF error.variant[1] = "ParsingError"
    THEN EnhanceParsingError(error.variant[2], error.variant[3], input,
                             SpanOfLocation(error.location))
    ELSE Diagnostic("SyntaxError", error.variant[2], "", "",
                    SpanOfLocation(error.location))

\* ParseError::from_pest
FromPest(error, input) ==
    IF error.variant[1] = "ParsingError"
    THEN IF error.variant[3] # <<>>
         THEN Diagnostic("UnexpectedToken", "",
                         JoinWith(FriendlyRules(error.variant[2]), " or "),
                         FriendlyRuleName(error.variant[3][1]),
                         SpanOfLocation(error.location))
         ELSE Diagnostic("MissingToken", "",
                         JoinWith(FriendlyRules(error.variant[2]), " or "), "",
                         SourceSpan(Len(input), 0))
    ELSE Diagnostic("SyntaxError", error.variant[2], "", "",
                    SpanOfLocation(error.location))

(***************************************************************************)
(* ParserObserver and RuleTracer (observer.rs), TraceableParser            *)
(* (traceable_parser.rs).  Durations, log lines and the text of a node are *)
(* left out.  A pair is [rule, start, end, children].                      *)
(***************************************************************************)
PestPair(rule, start, end, children) ==
    [rule |-> rule, start |-> start, end |-> end, children |-> children]

\* ParserObserver::new (lines 51-75)
NewObserver ==
    [current_depth |-> 0, max_depth |-> 0, parent_stack |-> <<>>,
     node_stack |-> <<>>, rule_stats |-> NoBindings, parse_tree |-> <<"None">>]

\* ParseTreeNode
ParseTreeNode(rule, span, children, success) ==
    [rule |-> rule, span |-> span, children |-> children, success |-> success]

\* RuleStats as or_insert makes it (lines 323-331)
NewRuleStats == [calls |-> 0, successes |-> 0, failures |-> 0]

\* what enter_rule returns
RuleTracer(rule_name, start_pos, depth) ==
    [rule_name |-> rule_name, start_pos |-> start_pos, depth |-> depth]

\* ParserObserver::enter_rule (lines 77-142): the observer it leaves; the
\* tracer it returns holds the depth it reached
EnterRule(obs, rule_name, input_pos) ==
    [obs EXCEPT
        !.current_depth = @ + 1,
        !.max_depth = IF obs.current_depth + 1 > @ THEN obs.current_depth + 1 ELSE @,
        !.parent_stack = Append(@, <<obs.current_depth + 1, rule_name>>),
        !.node_stack = Append(@, ParseTreeNode(rule_name, <<input_pos, input_pos>>,
                                               <<>>, FALSE))]
TracerOf(obs, rule_name, input_pos) ==
    RuleTracer(rule_name, input_pos, obs.current_depth + 1)

\* the statistics part of register_rule_result (lines 319-362)
UpdateStats(stats, rule_name, success) ==
    [r \in DOMAIN stats \cup {rule_name} |->
        IF r # rule_name THEN stats[r]
        ELSE LetIn(IF r \in DOMAIN stats THEN stats[r] ELSE NewRuleStats,
                   LAMBDA s :
                   [calls |-> s.calls + 1,
                    successes |-> IF success THEN s.successes + 1 ELSE s.successes,
                    failures |-> IF success THEN s.failures ELSE s.failures + 1])]

\* the parent stack part (lines 364-378): a mismatched entry is pushed back
PopParent(stack, rule_name, depth) ==
    IF stack = <<>> THEN stack
    ELSE IF stack[Len(stack)] # <<depth, rule_name>> THEN stack
    ELSE SubSeq(stack, 1, Len(stack) - 1)

\* the node stack part (lines 380-410): [node_stack, parse_tree]
PopNode(obs, start_pos, end, success) ==
    IF obs.node_stack = <<>>
    THEN [node_stack |-> obs.node_stack, parse_tree |-> obs.parse_tree]
    ELSE LetIn(<<[obs.node_stack[Len(obs.node_stack)] EXCEPT
                      !.span = <<start_pos, end>>, !.success = success],
                 SubSeq(obs.node_stack, 1, Len(obs.node_stack) - 1)>>,
               LAMBDA t :
               IF t[2] = <<>>
               THEN [node_stack |-> t[2], parse_tree |-> <<"Some", t[1]>>]
               ELSE IF success
               THEN [node_stack |->
                         [t[2] EXCEPT ![Len(t[2])].children = Append(@, t[1])],
                     parse_tree |-> obs.parse_tree]
               ELSE [node_stack |-> t[2], parse_tree |-> obs.parse_tree])

\* ParserObserver::register_rule_result (lines 308-415)
RegisterRuleResult(obs, rule_name, start_pos, end_pos, depth) ==
    LetIn(PopNode(obs, start_pos,
                  IF end_pos[1] = "Some" THEN end_pos[2] ELSE start_pos,
                  end_pos[1] = "Some"),
          LAMBDA n :
          [obs EXCEPT
              !.rule_stats = UpdateStats(@, rule_name, end_pos[1] = "Some"),
              !.parent_stack = PopParent(@, rule_name, depth),
              !.node_stack = n.node_stack,
              !.parse_tree = n.parse_tree,
              !.current_depth = IF @ > 0 THEN @ - 1 ELSE @])

\* RuleTracer::success (lines 512-532): the result is registered and the
\* tracer forgotten, so its Drop does not run
TracerSuccess(obs, tracer, end_pos) ==
    RegisterRuleResult(obs, tracer.rule_name, tracer.start_pos, <<"Some", end_pos>>,
                       tracer.depth)

TracerDropForgotten(obs, tracer) == obs

\* Drop for RuleTracer (lines 535-562); the tracer holds an Arc of the
\* observer, so its strong count is positive
TracerDrop(obs, tracer) ==
    RegisterRuleResult(obs, tracer.rule_name, tracer.start_pos, <<"None">>,
                       tracer.depth)

(***************************************************************************)
(* lsmer: WriteAheadLog (wal.rs), Memtable (memtable.rs) and LSMTree       *)
(* (lsm.rs).  The bytes of a serialized row and its checksum are kept as   *)
(* terms.                                                                  *)
(***************************************************************************)
\* ScalarValue
ScalarInt64(n) == <<"Int64", n>>
ScalarUtf8(s) == <<"Utf8", s>>

\* bincode::serialize(&row)
BincodeSerialize(row) == <<"bincode", row>>

\* the frame WriteAheadLog::append writes (wal.rs lines 25-43): magic,
\* version, length, checksum, payload
WalFrame(payload) ==
    [magic |-> "LSM1", version |-> 1, len |-> <<"len", payload>>,
     checksum |-> <<"crc32", payload>>, payload |-> payload]

\* WriteAheadLog::append: the file is opened in append mode
WalAppend(log, payload) == Append(log, WalFrame(payload))

\* Memtable::new (memtable.rs lines 31-53)
NewMemtable == [rows |-> <<>>, row_count |-> 0]

\* Memtable::append_row (lines 56-72) for a row of the schema
AppendRow(memtable, row) ==
    [rows |-> Append(memtable.rows, row), row_count |-> memtable.row_count + 1]

\* LSMTree::init (lsm.rs lines 33-46): WriteAheadLog::new opens or creates
\* wal.log and leaves what it holds
LsmInit(how) == <<"Some", [made_by |-> how, memtable |-> NewMemtable, puts |-> 0]>>

\* LSMTree::recover (lines 48-53)
LsmRecover == LsmInit("recover")

\* LSMTree::memtable_row_count
MemtableRowCount(tree) == tree.memtable.row_count
(***************************************************************************)
(* The qparser crate: the arithmetic sub-language of ints, floats,         *)
(* + - * / and parentheses (qparser/src/ast.rs, parser.rs, lib.rs).  An    *)
(* input is the sequence of its characters.                                *)
(***************************************************************************)
QInt(i) == <<"Int", i>>
QFloat(x) == <<"Float", x>>
QAdd(l, r) == <<"Add", l, r>>
QSub(l, r) == <<"Sub", l, r>>
QMul(l, r) == <<"Mul", l, r>>
QDiv(l, r) == <<"Div", l, r>>

\* An f64 of this crate is <<"Exact", m, e>>, the value m * 2^e with m odd
\* (or 0 * 2^0), when the operation that made it is exact and m is of at
\* most MaxExactBits bits (an f64 holds 53), and else the term of that
\* operation, <<"Computed", op, x, y>>.

RECURSIVE ExactF64(_, _)
ExactF64(m, e) ==
    IF m = 0 THEN <<"Exact", 0, 0>>
    ELSE IF m % 2 = 0 THEN ExactF64(m \div 2, e + 1)
    ELSE <<"Exact", m, e>>

IsExact(x) == x[1] = "Exact"

Rounded(op, x, y, m, e) ==
    IF Magnitude(m) < 2 ^ MaxExactBits THEN ExactF64(m, e)
    ELSE <<"Computed", op, x, y>>

MinOf(a, b) == IF a < b THEN a ELSE b

\* x op y on two f64, y # 0.0 for "/"
QF64Op(op, x, y) ==
    IF ~(IsExact(x) /\ IsExact(y)) THEN <<"Computed", op, x, y>>
    ELSE CASE op = "+" ->
                LetIn(MinOf(x[3], y[3]), LAMBDA e :
                      Rounded(op, x, y, x[2] * 2 ^ (x[3] - e) + y[2] * 2 ^ (y[3] - e), e))
           [] op = "-" ->
                LetIn(MinOf(x[3], y[3]), LAMBDA e :
                      Rounded(op, x, y, x[2] * 2 ^ (x[3] - e) - y[2] * 2 ^ (y[3] - e), e))
           [] op = "*" -> Rounded(op, x, y, x[2] * y[2], x[3] + y[3])
           [] op = "/" ->
                IF Magnitude(x[2]) % Magnitude(y[2]) = 0
                THEN ExactF64((IF (x[2] < 0) = (y[2] < 0) THEN 1 ELSE -1)
                                  * (Magnitude(x[2]) \div Magnitude(y[2])),
                              x[3] - y[3])
                ELSE <<"Computed", op, x, y>>

\* `i as f64`
QAsF64(i) == Rounded("as f64", i, i, i, 0)

DecimalDigits == <<"0", "1", "2", "3", "4", "5", "6", "7", "8", "9">>
IsDigit(c) == \E d \in 1..Len(DecimalDigits) : DecimalDigits[d] = c
DigitValue(c) == (CHOOSE d \in 1..Len(DecimalDigits) : DecimalDigits[d] = c) - 1

RECURSIVE ToDecimal(_)
\* the decimal digits of n >= 0
ToDecimal(n) ==
    IF n < 10 THEN DecimalDigits[n + 1]
    ELSE ToDecimal(n \div 10) \o DecimalDigits[(n % 10) + 1]

RECURSIVE PadZeros(_, _)
PadZeros(s, n) == IF n <= 0 THEN s ELSE "0" \o PadZeros(s, n - 1)

RECURSIVE StrLen(_)
\* the number of digits of n >= 0
StrLen(n) == IF n < 10 THEN 1 ELSE 1 + StrLen(n \div 10)

Signed(negative, s) == IF negative THEN "-" \o s ELSE s

\* Display for f64: the shortest decimal that reads back as the same float,
\* which for m * 2^-k with few bits is its exact decimal expansion, and for
\* a whole number its digits with no fraction
DisplayF64(x) ==
    IF ~IsExact(x) THEN <<"Display", x>>
    ELSE IF x[3] >= 0
         THEN Signed(x[2] < 0, ToDecimal(Magnitude(x[2]) * 2 ^ x[3]))
         ELSE LetIn(-x[3], LAMBDA k :
              LetIn((Magnitude(x[2]) % 2 ^ k) * 5 ^ k, LAMBDA frac :
                    Signed(x[2] < 0,
                           ToDecimal(Magnitude(x[2]) \div 2 ^ k) \o "."
                               \o PadZeros(ToDecimal(frac), k - StrLen(frac)))))

\* Display for Expr (ast.rs lines 18-30)
QDisplay(expr) ==
    CASE expr[1] = "Int" -> Signed(expr[2] < 0, ToDecimal(Magnitude(expr[2])))
      [] expr[1] = "Float" -> DisplayF64(expr[2])
      [] OTHER -> <<"Display", expr>>

QOk(v) == <<"Ok", v>>
QErr(msg) == <<"Err", msg>>

\* the match on (left, right) of one arm of Expr::eval: Int with Int stays
\* Int except under /, anything with a Float is a Float
QArith(op, left, right) ==
    CASE left[1] = "Int" /\ right[1] = "Int" ->
            IF op = "+" THEN QOk(QInt(left[2] + right[2]))
            ELSE IF op = "-" THEN QOk(QInt(left[2] - right[2]))
            ELSE IF op = "*" THEN QOk(QInt(left[2] * right[2]))
            ELSE QOk(QFloat(QF64Op("/", QAsF64(left[2]), QAsF64(right[2]))))
      [] left[1] = "Int" /\ right[1] = "Float" ->
            QOk(QFloat(QF64Op(op, QAsF64(left[2]), right[2])))
      [] left[1] = "Float" /\ right[1] = "Int" ->
            QOk(QFloat(QF64Op(op, left[2], QAsF64(right[2]))))
      [] left[1] = "Float" /\ right[1] = "Float" ->
            QOk(QFloat(QF64Op(op, left[2], right[2])))

QIsZero(v) ==
    \/ v[1] = "Int" /\ v[2] = 0
    \/ v[1] = "Float" /\ v[2] = <<"Exact", 0, 0>>

QOperator(expr) ==
    CASE expr[1] = "Add" -> "+" [] expr[1] = "Sub" -> "-"
      [] expr[1] = "Mul" -> "*" [] expr[1] = "Div" -> "/"

RECURSIVE QEval(_)
\* Expr::eval (ast.rs lines 33-87): left operand, then right operand, then
\* for Div the zero check, then the arithmetic
QEval(expr) ==
    IF expr[1] \in {"Int", "Float"} THEN QOk(expr)
    ELSE LetIn(QEval(expr[2]), LAMBDA left :
         IF left[1] = "Err" THEN left
         ELSE LetIn(QEval(expr[3]), LAMBDA right :
              IF right[1] = "Err" THEN right
              ELSE IF expr[1] = "Div" /\ QIsZero(right[2])
                   THEN QErr("Division by zero")
                   ELSE QArith(QOperator(expr), left[2], right[2])))

(* The parsers of expr_parser (parser.rs lines 6-57).  A parser applied at  *)
(* position pos of the input gives <<"Ok", output, next position>> or       *)
(* <<"Err", position>>.                                                     *)
POk(out, pos) == <<"Ok", out, pos>>
PErr(pos) == <<"Err", pos>>

CharAt(input, pos) == IF pos <= Len(input) THEN input[pos] ELSE "EOF"

RECURSIVE SkipWhitespace(_, _)
\* the whitespace `.padded()` skips
SkipWhitespace(input, pos) ==
    IF CharAt(input, pos) = " " THEN SkipWhitespace(input, pos + 1) ELSE pos

RECURSIVE DigitsEnd(_, _)
\* the position after the digits that start at pos
DigitsEnd(input, pos) ==
    IF IsDigit(CharAt(input, pos)) THEN DigitsEnd(input, pos + 1) ELSE pos

\* text::int(10): a digit other than 0 and the digits after it, or one 0
TextInt(input, pos) ==
    IF CharAt(input, pos) = "0" THEN POk(<<"0">>, pos + 1)
    ELSE IF IsDigit(CharAt(input, pos))
         THEN LetIn(DigitsEnd(input, pos), LAMBDA end :
                    POk(SubSeq(input, pos, end - 1), end))
         ELSE PErr(pos)

\* text::digits(10): at least one digit
TextDigits(input, pos) ==
    LetIn(DigitsEnd(input, pos), LAMBDA end :
          IF end > pos THEN POk(SubSeq(input, pos, end - 1), end) ELSE PErr(pos))

RECURSIVE DecimalValue(_)
\* str::parse::<i64> of a run of digits
DecimalValue(digits) ==
    IF digits = <<>> THEN 0
    ELSE 10 * DecimalValue(SubSeq(digits, 1, Len(digits) - 1))
             + DigitValue(digits[Len(digits)])

RECURSIVE TrimZeros(_)
TrimZeros(digits) ==
    IF digits # <<>> /\ digits[Len(digits)] = "0"
    THEN TrimZeros(SubSeq(digits, 1, Len(digits) - 1)) ELSE digits

\* str::parse::<f64> of int_part.frac: exact when the fraction is a number
\* of halves, quarters, ... up to its digits, and else the nearest float
ParseF64(int_part, frac) ==
    LetIn(TrimZeros(frac), LAMBDA f :
    LetIn(DecimalValue(int_part) * 10 ^ Len(f) + DecimalValue(f), LAMBDA n :
          IF (n * 2 ^ Len(f)) % (10 ^ Len(f)) = 0
          THEN ExactF64((n * 2 ^ Len(f)) \div (10 ^ Len(f)), -Len(f))
          ELSE <<"Computed", "parse", int_part, frac>>))

\* float (parser.rs lines 8-15)
FloatLiteral(input, pos) ==
    LetIn(TextInt(input, SkipWhitespace(input, pos)), LAMBDA i :
          IF i[1] = "Err" \/ CharAt(input, i[3]) # "." THEN PErr(pos)
          ELSE LetIn(TextDigits(input, i[3] + 1), LAMBDA d :
                     IF d[1] = "Err" THEN PErr(pos)
                     ELSE POk(QFloat(ParseF64(i[2], d[2])),
                              SkipWhitespace(input, d[3]))))

\* integer (parser.rs lines 17-20)
IntegerLiteral(input, pos) ==
    LetIn(TextInt(input, SkipWhitespace(input, pos)), LAMBDA i :
          IF i[1] = "Err" THEN PErr(pos)
          ELSE POk(QInt(DecimalValue(i[2])), SkipWhitespace(input, i[3])))

\* just(c).padded()
JustPadded(chars, input, pos) ==
    LetIn(SkipWhitespace(input, pos), LAMBDA p :
          IF CharAt(input, p) \in chars
          THEN POk(input[p], SkipWhitespace(input, p + 1)) ELSE PErr(pos))

\* op_mul_div (parser.rs line 32) with the + and - of op_add_sub
OpMulDivAsAddSub(input, pos) == JustPadded({"+", "-"}, input, pos)
\* op_mul_div (parser.rs line 32)
OpMulDiv(input, pos) == JustPadded({"*", "/"}, input, pos)

\* op_add_sub (parser.rs line 45)
OpAddSub(input, pos) == JustPadded({"+", "-"}, input, pos)

\* the node the foldl closures build for an operator character
QNode(op, l, r) ==
    CASE op = "+" -> QAdd(l, r) [] op = "-" -> QSub(l, r)
      [] op = "*" -> QMul(l, r) [] op = "/" -> QDiv(l, r)

RECURSIVE QAtom(_, _)
RECURSIVE QProductRest(_, _, _)
RECURSIVE QProduct(_, _)
RECURSIVE QSumRest(_, _, _)
RECURSIVE QExpr(_, _)

\* parenthesized (parser.rs lines 22-26)
QParenthesized(input, pos) ==
    LetIn(JustPadded({"("}, input, pos), LAMBDA open :
          IF open[1] = "Err" THEN PErr(pos)
          ELSE LetIn(QExpr(input, open[3]), LAMBDA inner :
                     IF inner[1] = "Err" THEN PErr(pos)
                     ELSE LetIn(JustPadded({")"}, input, inner[3]), LAMBDA close :
                                IF close[1] = "Err" THEN PErr(pos)
                                ELSE POk(inner[2], close[3]))))

\* atom (parser.rs line 29): float, or integer, or parenthesized
QAtom(input, pos) ==
    LetIn(FloatLiteral(input, pos), LAMBDA f :
          IF f[1] = "Ok" THEN f
          ELSE LetIn(IntegerLiteral(input, pos), LAMBDA i :
                     IF i[1] = "Ok" THEN i ELSE QParenthesized(input, pos)))

\* op_mul_div.then(atom).repeated() folded to the left onto l: a repetition
\* that fails is given up and the fold ends before it
QProductRest(input, pos, l) ==
    LetIn(OpMulDiv(input, pos), LAMBDA op :
          IF op[1] = "Err" THEN POk(l, pos)
          ELSE LetIn(QAtom(input, op[3]), LAMBDA r :
                     IF r[1] = "Err" THEN POk(l, pos)
                     ELSE QProductRest(input, r[3], QNode(op[2], l, r[2]))))

\* product (parser.rs lines 35-42)
QProduct(input, pos) ==
    LetIn(QAtom(input, pos), LAMBDA first :
          IF first[1] = "Err" THEN first
          ELSE QProductRest(input, first[3], first[2]))

\* op_add_sub.then(product).repeated() folded to the left onto l
QSumRest(input, pos, l) ==
    LetIn(OpAddSub(input, pos), LAMBDA op :
          IF op[1] = "Err" THEN POk(l, pos)
          ELSE LetIn(QProduct(input, op[3]), LAMBDA r :
                     IF r[1] = "Err" THEN POk(l, pos)
                     ELSE QSumRest(input, r[3], QNode(op[2], l, r[2]))))

\* the sum that is the expression (parser.rs lines 48-56)
QExpr(input, pos) ==
    LetIn(QProduct(input, pos), LAMBDA first :
          IF first[1] = "Err" THEN first
          ELSE QSumRest(input, first[3], first[2]))

\* parser::parse_expr (parser.rs lines 64-72) and parse (lib.rs lines 16-18):
\* the errors are joined into one string, here the position they are at
QParseExpr(input) ==
    LetIn(QExpr(input, 1), LAMBDA r :
          IF r[1] = "Ok" THEN QOk(r[2]) ELSE QErr(<<"Simple", r[2]>>))

\* eval_str (lib.rs lines 23-29)
EvalStr(input) ==
    LetIn(QParseExpr(input), LAMBDA expr :
          IF expr[1] = "Err" THEN expr
          ELSE LetIn(QEval(expr[2]), LAMBDA res :
                     IF res[1] = "Ok" THEN QOk(QDisplay(res[2])) ELSE res))
(***************************************************************************)
(* PartialEq for Value (evaluator/mod.rs lines 1351-1388) and Hash for     *)
(* Value (lines 1392-1448).  The f64 of a Float value is <<"Exact", m, e>> *)
(* with m odd, <<"NaN">>, <<"-0.0">>, or the term that computed it.        *)
(***************************************************************************)
F64NaN == <<"Float", <<"NaN">>>>
F64NegZero == <<"Float", <<"-0.0">>>>

\* the f64 a Float value holds
F64Of(v) == IF Len(v) = 3 THEN ExactF64(v[2], v[3]) ELSE v[2]

IsNan(x) == x = <<"NaN">>

\* a == b on f64: no NaN equals anything, the two zeros are equal
F64Equals(x, y) ==
    LET Unsigned(z) == IF z = <<"-0.0">> THEN <<"Exact", 0, 0>> ELSE z
    IN  ~IsNan(x) /\ ~IsNan(y) /\ Unsigned(x) = Unsigned(y)

\* f64::to_bits: one pattern for each float that is not NaN
ToBits(x) == <<"bits", x>>

\* `i as f64` for an i64 of at most three bytes, which no rounding changes
I64AsF64(i) ==
    IF \A k \in 4..I64Bytes : i[k] = 0
    THEN ExactF64(i[1] + 256 * i[2] + 65536 * i[3], 0)
    ELSE IF \A k \in 4..I64Bytes : i[k] = 255
         THEN ExactF64(-(WNeg(i)[1] + 256 * WNeg(i)[2] + 65536 * WNeg(i)[3]), 0)
         ELSE <<"as f64", i>>

\* the position of a variant in enum Value (lines 12-28): mem::discriminant
Discriminant(v) ==
    CASE v[1] = "Integer" -> 0 [] v[1] = "Float" -> 1 [] v[1] = "String" -> 2
      [] v[1] = "Boolean" -> 3 [] v[1] = "Symbol" -> 4 [] v[1] = "List" -> 5
      [] v[1] = "Map" -> 6 [] v[1] = "Set" -> 7 [] v[1] = "Function" -> 8
      [] v[1] = "Module" -> 9 [] v[1] = "Quote" -> 10 [] v[1] = "Null" -> 11
      [] v[1] = "Void" -> 12

\* FxHasher::finish after the writes given: a function of the writes
FxFinish(writes) == <<"FxHasher", writes>>

\* x ^ y on the sums of hashes: the hashes met an odd number of times
Xor(x, y) == (x \ y) \cup (y \ x)

RECURSIVE XorAll(_)
XorAll(hashes) ==
    IF hashes = <<>> THEN {} ELSE Xor(hashes[1], XorAll(Tail(hashes)))

RECURSIVE SeqOfSet(_)
\* the elements of a finite set in some order
SeqOfSet(s) ==
    IF s = {} THEN <<>>
    ELSE LetIn(CHOOSE x \in s : TRUE, LAMBDA x : <<x>> \o SeqOfSet(s \ {x}))

RECURSIVE FlattenSeq(_)
FlattenSeq(seqs) ==
    IF seqs = <<>> THEN <<>> ELSE seqs[1] \o FlattenSeq(Tail(seqs))

RECURSIVE ValueHash(_)
\* <Value as Hash>::hash(v, state) for a hashable v: what it writes to state,
\* in order.  The Hasher is the caller's: two values have one hash under
\* every Hasher just when they write the same.
ValueHash(v) ==
    <<<<"discriminant", Discriminant(v)>>>> \o
    CASE v[1] = "Integer" -> <<<<"i64", v[2]>>>>
      [] v[1] = "Float" ->
             IF IsNan(F64Of(v)) THEN <<<<"u64", ToBits(<<"Exact", 0, 0>>)>>>>
             ELSE <<<<"u64", ToBits(F64Of(v))>>>>
      [] v[1] = "Boolean" -> <<<<"bool", v[2]>>>>
      [] v[1] \in {"String", "Symbol"} -> <<<<"str", v[2]>>>>
      [] v[1] = "List" ->
             <<<<"usize", Len(v[2])>>>>
                 \o FlattenSeq([i \in 1..Len(v[2]) |-> ValueHash(v[2][i])])
      [] v[1] = "Map" ->
             LetIn(SeqOfSet(DOMAIN v[2]), LAMBDA keys :
                   <<<<"usize", Len(keys)>>,
                     <<"u64", XorAll([i \in 1..Len(keys) |->
                          {FxFinish(ValueHash(keys[i]) \o ValueHash(v[2][keys[i]]))}])>>>>)
      [] v[1] = "Set" ->
             LetIn(SeqOfSet(v[2]), LAMBDA keys :
                   <<<<"usize", Len(keys)>>,
                     <<"u64", XorAll([i \in 1..Len(keys) |->
                                         {FxFinish(ValueHash(keys[i]))}])>>>>)
      [] v[1] = "Null" -> <<<<"u64", 2>>>>
      [] v[1] = "Void" -> <<<<"u64", 3>>>>

\* hash of a value by a table: the panic of the arms of Function, Module and
\* Quote, or the hash
HashValue(v) ==
    LetIn(HashPanics(v), LAMBDA p :
          IF p # <<"None">>
          THEN Panic("Attempted to hash non-hashable type: " \o p[2])
          ELSE Ok(FxFinish(ValueHash(v))))

RECURSIVE ValueEq(_, _)

\* FxHashMap::get(k) on the keys given: a table looks at the entries of the
\* hash of k and takes the one that equals k
TableFind(keys, k) ==
    {e \in keys : FxFinish(ValueHash(e)) = FxFinish(ValueHash(k)) /\ ValueEq(e, k)}

\* <Value as PartialEq>::eq
ValueEq(a, b) ==
    CASE a[1] = "Integer" /\ b[1] = "Integer" -> a[2] = b[2]
      [] a[1] = "Float" /\ b[1] = "Float" ->
             IF IsNan(F64Of(a)) /\ IsNan(F64Of(b)) THEN TRUE
             ELSE F64Equals(F64Of(a), F64Of(b))
      [] a[1] = "Integer" /\ b[1] = "Float" -> F64Equals(I64AsF64(a[2]), F64Of(b))
      [] a[1] = "Float" /\ b[1] = "Integer" -> F64Equals(F64Of(a), I64AsF64(b[2]))
      [] a[1] = "List" /\ b[1] = "List" ->
             /\ Len(a[2]) = Len(b[2])
             /\ \A i \in 1..Len(a[2]) : ValueEq(a[2][i], b[2][i])
      [] a[1] = "Map" /\ b[1] = "Map" ->
             /\ Cardinality(DOMAIN a[2]) = Cardinality(DOMAIN b[2])
             /\ \A k \in DOMAIN a[2] :
                    \E e \in TableFind(DOMAIN b[2], k) : ValueEq(a[2][k], b[2][e])
      [] a[1] = "Set" /\ b[1] = "Set" ->
             /\ Cardinality(a[2]) = Cardinality(b[2])
             /\ \A k \in a[2] : TableFind(b[2], k) # {}
      [] a[1] = b[1] /\ a[1] \in {"Boolean", "String", "Symbol", "Function",
                                  "Module", "Quote", "Null", "Void"} -> a = b
      [] OTHER -> FALSE
(***************************************************************************)
(* The file system the driver reads: two files that parse, one that does   *)
(* not, one that cannot be read.                                           *)
(***************************************************************************)
PathNames == {"a.borf", "b.borf", "bad.borf", "missing.borf"}

FileKind(path) ==
    CASE path = "missing.borf" -> "unreadable"
      [] path = "bad.borf"     -> "invalid"
      [] OTHER                 -> "valid"

\* std::fs::read_to_string(&path): Ok(content) or Err(io error)
ReadToString(path) ==
    IF FileKind(path) = "unreadable"
    THEN <<"Err", <<"Io", path>>>>
    ELSE <<"Ok", <<"content", path>>>>

\* lines 116-129: traceable_parse, then process_pairs or ParseError::from_pest
ParseContent(content) ==
    IF FileKind(content[2]) = "valid"
    THEN <<"Ok", <<"module", content[2]>>>>
    ELSE <<"Err", <<"Syntax", content[2]>>>>

\* whether traceable_parse succeeds, so that process_pairs is called
ParseSucceeds(content) == FileKind(content[2]) = "valid"

(***************************************************************************)
(* DeterministicParseResults                                               *)
(***************************************************************************)
\* DashMap::insert mutated: the result is stored at the next free slot, in
\* completion order, instead of at the job's index.
InsertInCompletionOrder(map, index, result) ==
    LET slot == Cardinality(DOMAIN map)
    IN  [k \in (DOMAIN map) \cup {slot} |-> IF k = slot THEN result ELSE map[k]]

\* DeterministicParseResults::insert
Insert(map, index, result) ==
    [k \in (DOMAIN map) \cup {index} |-> IF k = index THEN result ELSE map[k]]

\* max_index mutated: the number of results less one, as if no index were
\* left out
MaxIndexByCount(map) ==
    IF DOMAIN map = {} THEN 0 ELSE Cardinality(DOMAIN map) - 1

\* the maximum key of the map, or 0 for an empty map
MaxIndex(map) ==
    IF DOMAIN map = {} THEN 0
    ELSE CHOOSE m \in DOMAIN map : \A k \in DOMAIN map : k <= m

RECURSIVE DrainFrom(_, _, _)
\* the loop `for i in 0..=max_index`: remove(&i), push when present
DrainFrom(map, i, maxIndex) ==
    IF i > maxIndex THEN <<>>
    ELSE (IF i \in DOMAIN map THEN <<map[i]>> ELSE <<>>)
         \o DrainFrom(map, i + 1, maxIndex)

\* get_ordered_results mutated: the loop runs over 0..max_index, exclusive
GetOrderedResultsExclusive(map) == DrainFrom(map, 0, MaxIndex(map) - 1)

\* DeterministicParseResults::get_ordered_results
GetOrderedResults(map) == DrainFrom(map, 0, MaxIndex(map))

(***************************************************************************)
(* parse_files_deterministic                                               *)
(***************************************************************************)
EmptyMap == [k \in {} |-> <<>>]

\* the read phase schedules every path, readable or not
ScheduledAlways(readResult) == TRUE

\* filter_map: Some((idx, path, content)) exactly when the read succeeded
Scheduled(readResult) == readResult[1] = "Ok"


(***************************************************************************)
(* parse_files_deterministic_result (lines 147-164) with the parser_fn of  *)
(* example_concurrent_parse (lines 169-178).  A content is the sequence of *)
(* its characters.                                                         *)
(***************************************************************************)
\* parser_fn: the first 10 characters of a content of more than 5
ExampleParserFn(content) ==
    IF Len(content) > 5
    THEN <<"Ok", SubSeq(content, 1, IF Len(content) < 10 THEN Len(content) ELSE 10)>>
    ELSE <<"Err", "Input too short">>
NativeIdle ==
    /\ overflowChecks = FALSE
    /\ nativeCall = [name |-> "", args |-> <<>>, out |-> <<"None">>]

DriverIdle ==
    /\ paths = <<>>
    /\ pc = "idle"
    /\ readIdx = 0
    /\ work = <<>>
    /\ results = EmptyMap
    /\ jobs = <<>>
    /\ wg = 0
    /\ arcs = 1
    /\ parsers = {}
    /\ processed = {}
    /\ ret = <<>>
    /\ insertOrder = <<>>
    /\ retIdx = <<>>

EvalIdle ==
    /\ heap = <<>>
    /\ replPc = "off"
    /\ replInput = <<"None">>
    /\ evalResult = <<"None">>
    /\ evalHeap = <<>>
    /\ trace = <<>>
    /\ declared = <<>>


BindIdle ==
    bindCall = [pattern |-> <<>>, value |-> <<>>, bindings |-> <<>>, out |-> <<"None">>]

DeclIdle ==
    declCall = [declaration |-> <<>>, env |-> 0, heap |-> <<>>,
                out |-> <<"None">>, after |-> <<>>]

DiagIdle ==
    diagCall = [function |-> "", error |-> <<>>, input |-> <<>>, out |-> <<"None">>]

ParseIdle ==
    /\ parseContext = [error_recovery |-> FALSE, max_errors |-> 0, diagnostics |-> <<>>]
    /\ parseCall = [function |-> "", pair |-> <<>>, out |-> <<"None">>,
                    max_errors |-> 0, recovery |-> FALSE, diagnostics |-> <<>>]
    /\ parseCount = 0

ObserverIdle ==
    /\ observer = [current_depth |-> 0, max_depth |-> 0, parent_stack |-> <<>>,
                   node_stack |-> <<>>, rule_stats |-> NoBindings,
                   parse_tree |-> <<"None">>]
    /\ tpPc = "off"
    /\ tpFrames = <<>>
    /\ tpResult = <<"None">>
    /\ tpCount = 0
    /\ notes = <<>>

LsmIdle ==
    /\ walLog = <<>>
    /\ lsmTree = <<"Off">>

HashIdle ==
    hashCall = [a |-> <<>>, b |-> <<>>, eq |-> <<"None">>,
                hash_a |-> <<"None">>, hash_b |-> <<"None">>]

QIdle ==
    qCall = [function |-> "", input |-> <<>>, written |-> <<"None">>,
             out |-> <<"None">>]

ResultIdle ==
    /\ indexedFiles = <<>>
    /\ fileJobs = <<>>
    /\ fileResults = EmptyMap
    /\ filePc = "idle"
    /\ ordered = <<>>

WorkerIdle ==
    /\ numWorkers = 0
    /\ tasks = <<>>
    /\ taskQueue = <<>>
    /\ handles = <<>>
    /\ runs = <<>>
    /\ workerPc = "off"
    /\ workerRet = <<"None">>
DriverInit ==
    /\ paths \in UNION {[1..n -> PathNames] : n \in 0..MaxFiles}
    /\ pc = "read"
    /\ readIdx = 0
    /\ work = <<>>
    /\ results = EmptyMap
    /\ jobs = <<>>
    /\ wg = 0
    /\ arcs = 1
    /\ parsers = {}
    /\ processed = {}
    /\ ret = <<>>
    /\ insertOrder = <<>>
    /\ retIdx = <<>>
    /\ NativeIdle
    /\ EvalIdle
    /\ BindIdle
    /\ DiagIdle
    /\ DeclIdle
    /\ ObserverIdle
    /\ ParseIdle
    /\ QIdle
    /\ LsmIdle
    /\ ResultIdle
    /\ HashIdle
    /\ WorkerIdle

\* One iteration of the filter_map closure (lines 85-98), or the end of collect.
ReadFile ==
    /\ pc = "read"
    /\ IF readIdx < Len(paths)
       THEN LET idx  == readIdx
                path == paths[readIdx + 1]
                rd   == ReadToString(path)
            IN  /\ readIdx' = readIdx + 1
                /\ IF Scheduled(rd)
                   THEN /\ work' = Append(work, <<idx, path, rd[2]>>)
                        /\ jobs' = Append(jobs, [st |-> "queued", result |-> <<"None">>])
                        /\ UNCHANGED <<results, insertOrder>>
                   ELSE /\ results' = Insert(results, idx, rd)
                        /\ insertOrder' = Append(insertOrder, idx)
                        /\ UNCHANGED <<work, jobs>>
                /\ UNCHANGED pc
       ELSE /\ pc' = "parse"
            /\ UNCHANGED <<readIdx, work, jobs, results, insertOrder>>
    /\ UNCHANGED <<paths, wg, arcs, parsers, processed, ret, retIdx>>

Running == {k \in 1..Len(jobs) : jobs[k].st \in {"started", "parsed", "inserted"}}

\* A pool thread takes a work item: clones the WaitGroup and the Arc, builds the
\* observer and the parser (lines 103-113).
JobStart(k) ==
    /\ pc = "parse"
    /\ jobs[k].st = "queued"
    /\ Cardinality(Running) < NumThreads
    /\ jobs' = [jobs EXCEPT ![k].st = "started"]
    /\ wg' = wg + 1
    /\ arcs' = arcs + 1
    /\ parsers' = parsers \cup {work[k][1]}
    /\ UNCHANGED <<paths, pc, readIdx, work, results, processed, ret,
                   insertOrder, retIdx>>

\* traceable_parse and process_pairs / from_pest (lines 116-129)
JobParse(k) ==
    /\ pc = "parse"
    /\ jobs[k].st = "started"
    /\ jobs' = [jobs EXCEPT ![k].st = "parsed",
                            ![k].result = ParseContent(work[k][3])]
    /\ processed' = IF ParseSucceeds(work[k][3])
                    THEN processed \cup {work[k][1]} ELSE processed
    /\ UNCHANGED <<paths, pc, readIdx, work, results, wg, arcs, parsers, ret,
                   insertOrder, retIdx>>

\* results_clone.insert(idx, result) (line 139)
JobInsert(k) ==
    /\ pc = "parse"
    /\ jobs[k].st = "parsed"
    /\ results' = Insert(results, work[k][1], jobs[k].result)
    /\ insertOrder' = Append(insertOrder, work[k][1])
    /\ jobs' = [jobs EXCEPT ![k].st = "inserted"]
    /\ UNCHANGED <<paths, pc, readIdx, work, wg, arcs, parsers, processed, ret,
                   retIdx>>

\* the closure returns: _guard and results_clone are dropped
JobEnd(k) ==
    /\ pc = "parse"
    /\ jobs[k].st = "inserted"
    /\ jobs' = [jobs EXCEPT ![k].st = "done"]
    /\ wg' = wg - 1
    /\ arcs' = arcs - 1
    /\ UNCHANGED <<paths, pc, readIdx, work, results, parsers, processed, ret,
                   insertOrder, retIdx>>

\* for_each returns once every closure has returned
ForEachReturns ==
    /\ pc = "parse"
    /\ \A k \in 1..Len(jobs) : jobs[k].st = "done"
    /\ pc' = "wait"
    /\ UNCHANGED <<paths, readIdx, work, results, jobs, wg, arcs, parsers,
                   processed, ret, insertOrder, retIdx>>

\* wg.wait() (line 142): blocks until every clone is dropped
WaitGroupWait ==
    /\ pc = "wait"
    /\ wg = 0
    /\ pc' = "drain"
    /\ UNCHANGED <<paths, readIdx, work, results, jobs, wg, arcs, parsers,
                   processed, ret, insertOrder, retIdx>>

\* Arc::try_unwrap(results).unwrap().get_ordered_results() (line 143)
Return ==
    /\ pc = "drain"
    /\ IF arcs = 1
       THEN /\ ret' = GetOrderedResults(results)
            /\ retIdx' = GetOrderedResults([k \in DOMAIN results |-> k])
            /\ results' = EmptyMap
            /\ pc' = "returned"
       ELSE /\ pc' = "panicked"
            /\ UNCHANGED <<ret, retIdx, results>>
    /\ UNCHANGED <<paths, readIdx, work, jobs, wg, arcs, parsers, processed,
                   insertOrder>>

DriverNext ==
    \/ ReadFile /\ UNCHANGED <<nativeVars, evalVars, bindVars, declVars, diagVars, parseVars, observerVars, lsmVars, qVars, hashVars, resultVars, workerVars>>
    \/ \E k \in 1..Len(jobs) : JobStart(k) /\ UNCHANGED <<nativeVars, evalVars, bindVars, declVars, diagVars, parseVars, observerVars, lsmVars, qVars, hashVars, resultVars, workerVars>>
    \/ \E k \in 1..Len(jobs) : JobParse(k) /\ UNCHANGED <<nativeVars, evalVars, bindVars, declVars, diagVars, parseVars, observerVars, lsmVars, qVars, hashVars, resultVars, workerVars>>
    \/ \E k \in 1..Len(jobs) : JobInsert(k) /\ UNCHANGED <<nativeVars, evalVars, bindVars, declVars, diagVars, parseVars, observerVars, lsmVars, qVars, hashVars, resultVars, workerVars>>
    \/ \E k \in 1..Len(jobs) : JobEnd(k) /\ UNCHANGED <<nativeVars, evalVars, bindVars, declVars, diagVars, parseVars, observerVars, lsmVars, qVars, hashVars, resultVars, workerVars>>
    \/ ForEachReturns /\ UNCHANGED <<nativeVars, evalVars, bindVars, declVars, diagVars, parseVars, observerVars, lsmVars, qVars, hashVars, resultVars, workerVars>>
    \/ WaitGroupWait /\ UNCHANGED <<nativeVars, evalVars, bindVars, declVars, diagVars, parseVars, observerVars, lsmVars, qVars, hashVars, resultVars, workerVars>>
    \/ Return /\ UNCHANGED <<nativeVars, evalVars, bindVars, declVars, diagVars, parseVars, observerVars, lsmVars, qVars, hashVars, resultVars, workerVars>>

DriverSpec == DriverInit /\ [][DriverNext]_vars

(***************************************************************************)
(* NativeSpec: apply_native_function applied to drawn arguments, in a      *)
(* build with or without overflow checks.                                  *)
(***************************************************************************)
I64Half == [i \in 1..I64Bytes |-> IF i = I64Bytes THEN 64 ELSE 0]   \* 2^62

IntegerInputs ==
    {I64Min, WAdd(I64Min, WOne(I64Bytes)), WNeg(I64Half), I64(-2), I64(-1),
     I64Zero, I64(1), I64(2), I64(5), I64Half, WSub(I64Max, WOne(I64Bytes)),
     I64Max}

FloatInputs ==
    {<<"Float", 0, 0>>, <<"Float", 1, 0>>, <<"Float", -1, 0>>, <<"Float", 5, 0>>,
     <<"Float", 1, F64EpsilonExp>>, <<"Float", 1, F64EpsilonExp - 1>>,
     <<"Float", -1, F64EpsilonExp - 1>>, <<"Float", 3, F64EpsilonExp - 2>>}

ValueInputs ==
    {VInteger(i) : i \in IntegerInputs} \cup FloatInputs
        \cup {VString("s"), VBoolean(TRUE), VNull}

ArithmeticNames == {"+", "-", "*", "/"}

NativeArgs ==
    {<<a, b>> : a \in ValueInputs, b \in ValueInputs}
        \cup {<<a>> : a \in {VInteger(I64(1))}}
        \cup {<<a, a, a>> : a \in {VInteger(I64Zero)}}

NativeInit ==
    /\ DriverIdle
    /\ EvalIdle
    /\ BindIdle
    /\ DiagIdle
    /\ DeclIdle
    /\ ObserverIdle
    /\ ParseIdle
    /\ QIdle
    /\ LsmIdle
    /\ ResultIdle
    /\ HashIdle
    /\ WorkerIdle
    /\ overflowChecks \in BOOLEAN
    /\ \E name \in ArithmeticNames, args \in NativeArgs :
           nativeCall = [name |-> name, args |-> args, out |-> <<"None">>]

\* the call of apply_native_function
ApplyNative ==
    /\ nativeCall.out = <<"None">>
    /\ nativeCall' = [nativeCall EXCEPT
           !.out = ApplyNativeFunction(nativeCall.name, nativeCall.args,
                                       overflowChecks)]
    /\ UNCHANGED overflowChecks

NativeNext == ApplyNative /\ UNCHANGED <<driverVars, evalVars, bindVars, declVars, diagVars, parseVars, observerVars, lsmVars, qVars, hashVars, resultVars, workerVars>>

NativeSpec == NativeInit /\ [][NativeNext]_vars

(***************************************************************************)
(* EvalSpec: run_repl (main.rs lines 221-295) over the global environment  *)
(* Evaluator::new leaves: the primitives of populate_global_env (the       *)
(* repository holds no prelude directory).  The lines entered are drawn    *)
(* from the programs below.                                                *)
(***************************************************************************)
Num(n) == ELiteral(LInteger(I64(n)))
Var(name) == EVariable(name)
Lam(params, body) == ELambda(params, body)
App(function, arguments) == EApplication(function, arguments)

\* lambda () 1
ConstFn == Lam(<<>>, Num(1))
\* lambda (a) a
IdentityFn == Lam(<<PVariable("a")>>, Var("a"))
\* 1 / 0
DivZero == EBinaryOp("/", Num(1), Num(0))

\* let h = (let x = 1 in lambda (y) [x, y]) in let x = 7 in h(2)
ScopeProgram ==
    ELet(PVariable("h"),
         ELet(PVariable("x"), Num(1),
              Lam(<<PVariable("y")>>, EList(<<Var("x"), Var("y")>>))),
         ELet(PVariable("x"), Num(7), App(Var("h"), <<Num(2)>>)))

ApplicationInputs ==
    {App(Var("f"), <<>>), App(Var("f"), <<Var("x")>>),
     App(Var("f"), <<Var("x"), Var("y")>>),
     App(Num(1), <<Var("u")>>),
     App(Var("f"), <<DivZero, Var("u")>>), App(Var("f"), <<Var("u"), DivZero>>),
     App(IdentityFn, <<>>), App(Lam(<<>>, Var("u")), <<Num(1)>>),
     App(IdentityFn, <<Num(1), Var("u")>>), App(IdentityFn, <<Num(1), Num(2)>>),
     App(Lam(<<PLiteral(LInteger(I64(1)))>>, Num(3)), <<Num(2)>>),
     App(Var("+"), <<Num(1), Num(2)>>),
     EBinaryOp("|>", Var("x"), IdentityFn),
     ScopeProgram}

CollectionInputs ==
    {ESet(<<Num(1), Num(2)>>), ESet(<<ConstFn>>), ESet(<<Var("f")>>),
     ESet(<<Num(1), EList(<<ConstFn>>)>>), ESet(<<EQuote(Var("x"))>>),
     ESet(<<EMap(<<<<"k", ConstFn>>>>)>>), EMap(<<<<"k", ConstFn>>>>),
     EQuasiquote(ESet(<<EUnquoteSplice(EList(<<Num(1), ConstFn>>))>>)),
     EQuasiquote(ESet(<<EUnquote(ConstFn)>>)),
     EQuasiquote(ESet(<<EList(<<EUnquote(ConstFn)>>)>>)),
     EQuasiquote(ESet(<<EUnquoteSplice(ESet(<<Num(1)>>)),
                        EUnquoteSplice(EList(<<Num(2)>>)), Var("x")>>)),
     ESet(<<ConstFn, Var("u")>>), ESet(<<Num(1), Var("u"), Num(2)>>),
     ESet(<<>>), ESet(<<ESet(<<Num(1)>>), Var("x")>>),
     EMap(<<<<"k", Num(1)>>, <<"j", Var("x")>>>>),
     EMap(<<<<"k", Var("u")>>, <<"j", DivZero>>>>)}

OtherInputs ==
    {Num(1), Var("x"), Var("f"), EBinaryOp("+", Var("x"), Num(2)),
     EBinaryOp("*", ELiteral(LInteger(I64Max)), Num(2)), DivZero,
     EIf(ELiteral(LBoolean(TRUE)), Num(1), Var("u")), EUnquote(Num(1))}

\* let and if, with patterns that match, that do not, and operands that fail
BindingInputs ==
    {ELet(PVariable("x"), Num(5), Var("x")),
     ELet(PLiteral(LInteger(I64(1))), Num(2), Var("u")),
     ELet(PVariable("x"), Var("u"), Num(1)),
     ELet(PList(<<PVariable("a")>>), EList(<<Num(1), Num(2)>>), Var("u")),
     ELet(PList(<<PVariable("a"), PWildcard>>), EList(<<Num(1), Num(2)>>), Var("a")),
     ELet(PSet(<<PVariable("a")>>), ESet(<<Num(1)>>), Var("a")),
     EIf(ELiteral(LBoolean(FALSE)), Var("u"), Num(2)),
     EIf(Num(1), Var("u"), Var("u")),
     EIf(Var("u"), Num(1), Num(2))}

\* operators: bound to a native, it may be to a declared value, or unbound
OperatorInputs ==
    {EBinaryOp("+", Num(1), Num(2)), EBinaryOp("+", Var("u"), DivZero),
     EBinaryOp("+", Num(1), Var("u")),
     EUnaryOp("-", Num(1)), EUnaryOp("not", ELiteral(LBoolean(TRUE))),
     EUnaryOp("not", Var("u")), EBinaryOp("%", Num(1), Num(2))}

\* a |> f for operands that evaluate, that fail, and that are no function
PipeArguments == {Num(1), Var("u"), DivZero}
PipeFunctions == {IdentityFn, Var("f"), Var("v"), Num(2), DivZero}
PipeInputs == {EBinaryOp("|>", a, f) : a \in PipeArguments, f \in PipeFunctions}

\* 2 + 3
Sum23 == EBinaryOp("+", Num(2), Num(3))

\* the pairs of `2 + 3` and of `1 + ~(2 + 3)`: the unquote sign before an
\* operand is a prefix operator token of the expression
SumPairs ==
    <<PrimaryPair(<<"literal", "2">>), OperatorPair("op_add", "+"),
      PrimaryPair(<<"literal", "3">>)>>
NestedQuotingPairs ==
    <<PrimaryPair(<<"literal", "1">>), OperatorPair("op_add", "+"),
      OperatorPair("op_unquote", "~"),
      PrimaryPair(<<"parenthesized_expr", ExprPair(SumPairs)>>)>>

\* the line (1 + ~(2 + 3)) under a backquote, one primary of the quoting
\* forms, as parse_repl_input (lib.rs lines 91-140) has parse_expr return it
NestedQuotingLine ==
    ParseExpr(ExprPair(<<PrimaryPair(<<"quasiquote_expr",
                                       ExprPair(NestedQuotingPairs)>>)>>))[2]

\* quasiquotes with an Unquote at every kind of position, and with splices
QuasiquoteInputs ==
    {NestedQuotingLine,
     EQuasiquote(EBinaryOp("+", Num(1), EUnquote(Sum23))),
     EQuasiquote(EUnaryOp("-", EUnquote(Var("x")))),
     EQuasiquote(EList(<<Var("a"), EUnquote(Sum23),
                         EMap(<<<<"k", EUnquote(Num(1))>>, <<"j", Var("b")>>>>)>>)),
     EQuasiquote(ESet(<<EUnquote(Sum23), Var("a")>>)),
     EQuasiquote(App(Var("g"), <<EUnquote(Var("x")), Var("y"), EUnquote(Sum23)>>)),
     EQuasiquote(EIf(EUnquote(Var("x")), Var("a"), EUnquote(DivZero))),
     EQuasiquote(ELet(PVariable("v"), EUnquote(Num(1)), EUnquote(Sum23))),
     EQuasiquote(Lam(<<PVariable("a")>>, EUnquote(Sum23))),
     EQuasiquote(EQuote(EQuasiquote(EUnquote(Sum23)))),
     EQuasiquote(EUnquote(EQuasiquote(EUnquote(Num(1))))),
     EQuasiquote(EList(<<Num(1), EUnquoteSplice(EList(<<Num(2), Num(3)>>)), Num(4)>>)),
     EQuasiquote(EList(<<Num(1), EUnquoteSplice(ESet(<<Num(2)>>)), Var("u")>>)),
     EQuasiquote(EList(<<EUnquoteSplice(Num(1))>>)),
     EQuasiquote(EList(<<EUnquoteSplice(Var("u"))>>)),
     EQuasiquote(ESet(<<EUnquoteSplice(Num(1))>>)),
     EQuasiquote(ESet(<<Num(1), EUnquoteSplice(ESet(<<Num(2), Num(3)>>))>>)),
     EQuasiquote(ESet(<<EUnquoteSplice(EList(<<Num(2), Num(2), Num(3)>>)), Num(4)>>))}

ReplExpressions ==
    ApplicationInputs \cup CollectionInputs \cup BindingInputs
        \cup OperatorInputs \cup PipeInputs \cup QuasiquoteInputs \cup OtherInputs

ReplDeclarations ==
    {DEntity("f", Lam(<<>>, Var("y"))),
     DEntity("f", Lam(<<PVariable("a"), PVariable("b")>>,
                      EList(<<Var("a"), Var("b")>>))),
     DEntity("x", Num(1)), DEntity("y", Num(2)),
     DEntity("x", ESet(<<ConstFn>>)),
     DEntity("+", Lam(<<PVariable("a"), PVariable("b")>>,
                      EList(<<Var("b"), Var("a")>>))),
     DOperation("+")}

EvalInit ==
    /\ DriverIdle
    /\ BindIdle
    /\ DeclIdle
    /\ ParseIdle
    /\ DiagIdle
    /\ LsmIdle
    /\ ObserverIdle
    /\ HashIdle
    /\ QIdle
    /\ WorkerIdle
    /\ ResultIdle
    /\ overflowChecks \in BOOLEAN
    /\ nativeCall = [name |-> "", args |-> <<>>, out |-> <<"None">>]
    /\ heap = PopulateGlobalEnv(NewGlobal, GlobalEnv)
    /\ replPc = "prompt"
    /\ replInput = <<"None">>
    /\ evalResult = <<"None">>
    /\ evalHeap = <<>>
    /\ trace = <<>>
    /\ declared = <<>>

\* where run_repl goes with eval_result: a panic unwinds out of the process
AfterEval(out) == IF out[1] = "Panic" THEN "crashed" ELSE "report"

\* a line that parses to ReplInput::Expression (lines 250-253).  The frames
\* the evaluation allocated are dropped with its result.
ReplExpression ==
    /\ replPc = "prompt"
    /\ \E expr \in ReplExpressions :
       \E r \in {Eval(expr, GlobalEnv, [heap |-> heap, trace |-> <<>>], 0)} :
               /\ replInput' = <<"Expression", expr>>
               /\ evalResult' = r.out
               /\ evalHeap' = r.st.heap
               /\ trace' = r.st.trace
               /\ heap' = SubSeq(r.st.heap, 1, Len(heap))
               /\ replPc' = AfterEval(r.out)
    /\ UNCHANGED declared

\* a line that parses to ReplInput::Declaration (lines 254-261)
ReplDeclaration ==
    /\ replPc = "prompt"
    /\ Len(declared) < MaxDeclarations
    /\ \E decl \in ReplDeclarations :
       \E r \in {EvaluateDeclaration(decl, GlobalEnv,
                                      [heap |-> heap, trace |-> <<>>])} :
               /\ declared' = Append(declared, decl)
               /\ replInput' = <<"Declaration", decl>>
               /\ evalResult' = IF IsOk(r) THEN Ok(VVoid) ELSE r.out
               /\ evalHeap' = r.st.heap
               /\ trace' = r.st.trace
               /\ heap' = r.st.heap
               /\ replPc' = AfterEval(r.out)

\* a line parse_repl_input_with_trace rejects (lines 271-277): the parse
\* error is reported and nothing is evaluated
ReplParseError ==
    /\ replPc = "prompt"
    /\ replInput' = <<"ParseError">>
    /\ replPc' = "report"
    /\ UNCHANGED <<heap, evalResult, evalHeap, trace, declared>>

\* the result or the error is printed (lines 264-270) and the loop goes on
ReplReport ==
    /\ replPc = "report"
    /\ replPc' = "prompt"
    /\ replInput' = <<"None">>
    /\ evalResult' = <<"None">>
    /\ evalHeap' = <<>>
    /\ trace' = <<>>
    /\ UNCHANGED <<heap, declared>>

\* :quit, :q, CTRL-C or CTRL-D (lines 237-239, 282-289)
ReplQuit ==
    /\ replPc = "prompt"
    /\ replPc' = "exited"
    /\ UNCHANGED <<heap, replInput, evalResult, evalHeap, trace, declared>>

EvalNext ==
    \/ ReplExpression /\ UNCHANGED <<driverVars, nativeVars, bindVars, declVars, diagVars, parseVars, observerVars, lsmVars, qVars, hashVars, resultVars, workerVars>>
    \/ ReplDeclaration /\ UNCHANGED <<driverVars, nativeVars, bindVars, declVars, diagVars, parseVars, observerVars, lsmVars, qVars, hashVars, resultVars, workerVars>>
    \/ ReplParseError /\ UNCHANGED <<driverVars, nativeVars, bindVars, declVars, diagVars, parseVars, observerVars, lsmVars, qVars, hashVars, resultVars, workerVars>>
    \/ ReplReport /\ UNCHANGED <<driverVars, nativeVars, bindVars, declVars, diagVars, parseVars, observerVars, lsmVars, qVars, hashVars, resultVars, workerVars>>
    \/ ReplQuit /\ UNCHANGED <<driverVars, nativeVars, bindVars, declVars, diagVars, parseVars, observerVars, lsmVars, qVars, hashVars, resultVars, workerVars>>

EvalSpec == EvalInit /\ [][EvalNext]_vars


(***************************************************************************)
(* BindSpec: bind_pattern (lines 848-933) called once on a pattern, a      *)
(* value and a binding table drawn from the sets below.                    *)
(***************************************************************************)
BindPatterns ==
    {PVariable("a"), PWildcard, PLiteral(LInteger(I64(1))),
     PList(<<>>), PList(<<PVariable("a")>>),
     PList(<<PVariable("a"), PVariable("b")>>),
     PList(<<PVariable("a"), PLiteral(LInteger(I64(1)))>>),
     PList(<<PList(<<PVariable("a")>>), PVariable("b")>>),
     PSet(<<>>), PSet(<<PVariable("a")>>), PSet(<<PVariable("a"), PWildcard>>),
     PSet(<<PLiteral(LInteger(I64(1)))>>),
     PMap(<<<<"k", PVariable("a")>>>>),
     PTypeAnnotated(PList(<<PVariable("a")>>)),
     PTypeAnnotated(PSet(<<PVariable("a")>>))}

BindValues ==
    {VInteger(I64(1)), VList(<<>>), VList(<<VInteger(I64(1))>>),
     VList(<<VInteger(I64(1)), VInteger(I64(2))>>),
     VList(<<VList(<<VInteger(I64(3))>>), VInteger(I64(1))>>),
     VList(<<VInteger(I64(1)), VInteger(I64(2)), VInteger(I64(3))>>),
     VSet({}), VSet({VInteger(I64(1))}),
     VSet({VInteger(I64(1)), VInteger(I64(2))}),
     VMap([k \in {VString("k")} |-> VInteger(I64(1))])}

\* the caller's table: empty, or with a binding made before the call
BindTables == {NoBindings, [n \in {"a"} |-> VInteger(I64(9))]}

BindInit ==
    /\ DriverIdle
    /\ NativeIdle
    /\ EvalIdle
    /\ DiagIdle
    /\ DeclIdle
    /\ ObserverIdle
    /\ ParseIdle
    /\ QIdle
    /\ LsmIdle
    /\ ResultIdle
    /\ HashIdle
    /\ WorkerIdle
    /\ \E pattern \in BindPatterns, value \in BindValues, bindings \in BindTables :
           bindCall = [pattern |-> pattern, value |-> value,
                       bindings |-> bindings, out |-> <<"None">>]

\* the call of bind_pattern
BindCall ==
    /\ bindCall.out = <<"None">>
    /\ bindCall' = [bindCall EXCEPT
           !.out = BindPattern(bindCall.pattern, bindCall.value, bindCall.bindings)]

BindNext == BindCall /\ UNCHANGED <<driverVars, nativeVars, evalVars, declVars, diagVars, parseVars, observerVars, lsmVars, qVars, hashVars, resultVars, workerVars>>

BindSpec == BindInit /\ [][BindNext]_vars

(***************************************************************************)
(* DeclSpec: evaluate_declaration (lines 586-633) called once on a         *)
(* declaration and a frame of one of the frame tables below.               *)
(***************************************************************************)
Primitives == PopulateGlobalEnv(NewGlobal, GlobalEnv)

\* the global frame with x, and a child frame that shadows x
ShadowingFrames ==
    Define(Define(NewExtending(Define(Primitives, GlobalEnv, "x", VInteger(I64(1))),
                               GlobalEnv),
                  2, "x", VInteger(I64(7))),
           2, "t", VNull)

\* global, child and grandchild, each with a binding of its own
NestedFrames ==
    Define(NewExtending(
               Define(NewExtending(Define(Primitives, GlobalEnv, "x", VInteger(I64(1))),
                                   GlobalEnv),
                      2, "y", VInteger(I64(2))),
               2),
           3, "g", VInteger(I64(3)))

\* two children of the global frame
SiblingFrames ==
    Define(NewExtending(
               Define(NewExtending(Primitives, GlobalEnv), 2, "x", VInteger(I64(4))),
               GlobalEnv),
           3, "y", VInteger(I64(5)))

DeclFrames == {Primitives, ShadowingFrames, NestedFrames, SiblingFrames}

DeclDeclarations ==
    {DEntity("x", Num(5)), DEntity("z", Var("x")), DEntity("x", DivZero),
     DEntity("f", IdentityFn), DEntityNoValue("x"), DEntityNoValue("z"),
     DEntity("z", App(IdentityFn, <<Var("y")>>)),
     DFunction("g", Var("x")), DFunction("x", Num(1)),
     DType("T"), DType("x"), DOperation("+"), DOperation("x"),
     DDependency("m"), DDependency("x")}

DeclInit ==
    /\ DriverIdle
    /\ NativeIdle
    /\ EvalIdle
    /\ DiagIdle
    /\ BindIdle
    /\ ObserverIdle
    /\ ParseIdle
    /\ QIdle
    /\ LsmIdle
    /\ ResultIdle
    /\ HashIdle
    /\ WorkerIdle
    /\ \E declaration \in DeclDeclarations, frames \in DeclFrames :
       \E env \in 1..Len(frames) :
           declCall = [declaration |-> declaration, env |-> env, heap |-> frames,
                       out |-> <<"None">>, after |-> <<>>]

\* the call of evaluate_declaration
DeclCall ==
    /\ declCall.out = <<"None">>
    /\ \E r \in {EvaluateDeclaration(declCall.declaration, declCall.env,
                                      [heap |-> declCall.heap, trace |-> <<>>])} :
           declCall' = [declCall EXCEPT !.out = r.out, !.after = r.st.heap]

DeclNext == DeclCall /\ UNCHANGED <<driverVars, nativeVars, evalVars, bindVars, diagVars, parseVars, observerVars, lsmVars, qVars, hashVars, resultVars, workerVars>>

DeclSpec == DeclInit /\ [][DeclNext]_vars

(***************************************************************************)
(* DiagSpec: one pest error, as pest::error::Error lets a caller build it, *)
(* converted by enhance_pest_error or by ParseError::from_pest.            *)
(***************************************************************************)
DiagInputs == {<<>>, <<"a", "b">>, <<"a", " ", "b">>, <<" ", " ", "c">>}

DiagLocations ==
    {InputPos(p) : p \in 0..MaxOffset}
        \cup {InputSpan(q[1], q[2]) :
                  q \in {r \in (0..MaxOffset) \X (0..MaxOffset) : r[1] <= r[2]}}

DiagPositives == {<<>>, <<"expr">>, <<"expr", "identifier">>, <<"lambda">>}
DiagNegatives == {<<>>, <<"identifier">>, <<"expr", "lambda">>}

DiagVariants ==
    {ParsingError(positives, negatives) :
         positives \in DiagPositives, negatives \in DiagNegatives}
        \cup {CustomError("bad")}

PestErrors ==
    {[variant |-> variant, location |-> location] :
         variant \in DiagVariants, location \in DiagLocations}

DiagInit ==
    /\ DriverIdle
    /\ NativeIdle
    /\ EvalIdle
    /\ BindIdle
    /\ DeclIdle
    /\ ObserverIdle
    /\ ParseIdle
    /\ QIdle
    /\ LsmIdle
    /\ ResultIdle
    /\ HashIdle
    /\ WorkerIdle
    /\ \E function \in {"enhance_pest_error", "from_pest"},
          error \in PestErrors, input \in DiagInputs :
           diagCall = [function |-> function, error |-> error, input |-> input,
                       out |-> <<"None">>]

\* the call of enhance_pest_error
EnhanceCall ==
    /\ diagCall.function = "enhance_pest_error"
    /\ diagCall.out = <<"None">>
    /\ diagCall' = [diagCall EXCEPT
           !.out = <<"Some", EnhancePestError(diagCall.error, diagCall.input)>>]

\* the call of ParseError::from_pest
FromPestCall ==
    /\ diagCall.function = "from_pest"
    /\ diagCall.out = <<"None">>
    /\ diagCall' = [diagCall EXCEPT
           !.out = <<"Some", FromPest(diagCall.error, diagCall.input)>>]

DiagNext ==
    \/ EnhanceCall /\ UNCHANGED <<driverVars, nativeVars, evalVars, bindVars, declVars, parseVars, observerVars, lsmVars, qVars, hashVars, resultVars, workerVars>>
    \/ FromPestCall /\ UNCHANGED <<driverVars, nativeVars, evalVars, bindVars, declVars, parseVars, observerVars, lsmVars, qVars, hashVars, resultVars, workerVars>>

DiagSpec == DiagInit /\ [][DiagNext]_vars

(***************************************************************************)
(* ParseSpec: a caller holding a ParserContext calls parse_expr (which     *)
(* makes its own context), parse_expr_with_context and record_error on     *)
(* pairs as the grammar's expr rule yields them: primaries and identifiers *)
(* alternating with infix operators, prefix operators before operands.     *)
(***************************************************************************)
LiteralPrimary(text) == PrimaryPair(<<"literal", text>>)
AddOp == OperatorPair("op_add", "+")
MulOp == OperatorPair("op_mul", "*")

\* n primaries joined by +
ManyPrimaries(n) ==
    [i \in 1..(2 * n - 1) |-> IF i % 2 = 1 THEN LiteralPrimary("1") ELSE AddOp]

ParsePairs ==
    {ExprPair(<<IdentifierPair("a")>>),
     ExprPair(<<IdentifierPair("a"), AddOp, IdentifierPair("b"), MulOp,
                IdentifierPair("c")>>),
     ExprPair(<<OperatorPair("op_neg", "-"), IdentifierPair("a"), AddOp,
                IdentifierPair("b")>>),
     ExprPair(<<LiteralPrimary("1")>>),
     ExprPair(<<IdentifierPair("a"), AddOp, LiteralPrimary("1")>>),
     ExprPair(<<OperatorPair("op_not", "not"), LiteralPrimary("1"), MulOp,
                IdentifierPair("b")>>),
     ExprPair(<<IdentifierPair("a"), OperatorPair("op_pipe", "|>"),
                <<"literal", "2">>>>),
     ExprPair(ManyPrimaries(2)),
     ExprPair(ManyPrimaries(DefaultMaxErrors + 1)),
     LiteralPrimary("1"),
     IdentifierPair("a")}

ParseErrors == {SyntaxError("bad"), UnexpectedToken("expression", "literal")}

ParseContexts ==
    {NewParserContext, WithRecovery(NewParserContext)}
        \cup {WithConfig(WithRecovery(NewParserContext), n) : n \in 0..2}
        \cup {WithConfig(NewParserContext, 1)}

ParseInit ==
    /\ DriverIdle
    /\ NativeIdle
    /\ EvalIdle
    /\ BindIdle
    /\ DeclIdle
    /\ ObserverIdle
    /\ DiagIdle
    /\ QIdle
    /\ LsmIdle
    /\ ResultIdle
    /\ HashIdle
    /\ WorkerIdle
    /\ parseContext \in ParseContexts
    /\ parseCall = [function |-> "", pair |-> <<>>, out |-> <<"None">>,
                    max_errors |-> 0, recovery |-> FALSE, diagnostics |-> <<>>]
    /\ parseCount = 0

\* what a call leaves: its result, and the diagnostics of the context it used
Called(function, pair, parsed) ==
    [function |-> function, pair |-> pair, out |-> parsed.out,
     max_errors |-> parsed.context.max_errors,
     recovery |-> parsed.context.error_recovery,
     diagnostics |-> parsed.context.diagnostics]

\* parse_expr(pair, source_name)
ParseExprCall ==
    /\ parseCount < MaxParseCalls
    /\ \E pair \in ParsePairs :
           parseCall' = Called("parse_expr", pair, ParseExprContext(pair))
    /\ parseCount' = parseCount + 1
    /\ UNCHANGED parseContext

\* parse_expr_with_context(pair, &mut context)
ParseExprWithContextCall ==
    /\ parseCount < MaxParseCalls
    /\ \E pair \in ParsePairs :
       \E parsed \in {ParseExprWithContext(pair, parseContext)} :
           /\ parseCall' = Called("parse_expr_with_context", pair, parsed)
           /\ parseContext' = parsed.context
    /\ parseCount' = parseCount + 1

\* context.record_error(&error, &pair)
RecordErrorCall ==
    /\ parseCount < MaxParseCalls
    /\ \E error \in ParseErrors :
       \E context \in {RecordError(parseContext, error)} :
           /\ parseCall' = Called("record_error", <<>>,
                                  Parsed(<<"None">>, context))
           /\ parseContext' = context
    /\ parseCount' = parseCount + 1

ParseNext ==
    \/ ParseExprCall /\ UNCHANGED <<driverVars, nativeVars, evalVars, bindVars, declVars, diagVars, observerVars, lsmVars, qVars, hashVars, resultVars, workerVars>>
    \/ ParseExprWithContextCall /\ UNCHANGED <<driverVars, nativeVars, evalVars, bindVars, declVars, diagVars, observerVars, lsmVars, qVars, hashVars, resultVars, workerVars>>
    \/ RecordErrorCall /\ UNCHANGED <<driverVars, nativeVars, evalVars, bindVars, declVars, diagVars, observerVars, lsmVars, qVars, hashVars, resultVars, workerVars>>

ParseSpec == ParseInit /\ [][ParseNext]_vars

(***************************************************************************)
(* ObserverSpec: TraceableParser::traceable_parse (traceable_parser.rs     *)
(* lines 31-81) with an observer, and trace_pair (lines 84-100), one       *)
(* notification a step.  P::parse returns an error or one of the pair      *)
(* trees below.  tpFrames holds, innermost last, each live RuleTracer with *)
(* the pairs its loop has still to trace.                                  *)
(***************************************************************************)
Leaf(rule, start, end) == PestPair(rule, start, end, <<>>)

\* the input of every call (its length is what the top tracer reports)
TraceInputLen == 4

ParseOutcomes ==
    {<<"Err">>,
     <<"Ok", <<>>>>,
     <<"Ok", <<Leaf("identifier", 0, 1)>>>>,
     <<"Ok", <<PestPair("expr", 0, 3,
                        <<Leaf("identifier", 0, 1), Leaf("op_add", 1, 2),
                          Leaf("identifier", 2, 3)>>),
               Leaf("EOI", 3, 3)>>>>,
     <<"Ok", <<PestPair("expr", 0, 4,
                        <<PestPair("primary", 0, 4,
                                   <<PestPair("expr", 1, 3,
                                              <<Leaf("identifier", 1, 3)>>)>>)>>)>>>>}

ObserverInit ==
    /\ DriverIdle
    /\ NativeIdle
    /\ EvalIdle
    /\ BindIdle
    /\ DeclIdle
    /\ DiagIdle
    /\ ParseIdle
    /\ QIdle
    /\ LsmIdle
    /\ ResultIdle
    /\ HashIdle
    /\ WorkerIdle
    /\ observer = NewObserver
    /\ tpPc = "idle"
    /\ tpFrames = <<>>
    /\ tpResult = <<"None">>
    /\ tpCount = 0
    /\ notes = <<>>

\* a live tracer, the pairs still to trace under it, the end it will report
Frame(tracer, todo, end) == [tracer |-> tracer, todo |-> todo, end |-> end]
EnterNote(tracer) == <<"enter", tracer.rule_name, tracer.depth>>
ResultNote(tracer, success) == <<"result", tracer.rule_name, tracer.depth, success>>

\* traceable_parse begins: observer.enter_rule(&rule_name, 0) (line 46)
EnterTopRule ==
    /\ tpPc = "idle"
    /\ tpCount < MaxTraces
    /\ \E rule \in {"file", "expr"} :
           /\ observer' = EnterRule(observer, rule, 0)
           /\ tpFrames' = <<Frame(TracerOf(observer, rule, 0), <<>>, TraceInputLen)>>
           /\ notes' = Append(notes, EnterNote(TracerOf(observer, rule, 0)))
    /\ tpCount' = tpCount + 1
    /\ tpPc' = "parse"
    /\ UNCHANGED tpResult

\* P::parse(rule, input) returns (line 48)
InnerParse ==
    /\ tpPc = "parse"
    /\ \E result \in ParseOutcomes :
           /\ tpResult' = result
           /\ tpFrames' = [tpFrames EXCEPT ![1].todo =
                               IF result[1] = "Ok" THEN result[2] ELSE <<>>]
           /\ tpPc' = IF result[1] = "Ok" THEN "trace" ELSE "failed"
    /\ UNCHANGED <<observer, tpCount, notes>>

\* trace_pair is called on the next pair: observer.enter_rule (line 94)
TracePairEnter ==
    /\ tpPc = "trace"
    /\ tpFrames[Len(tpFrames)].todo # <<>>
    /\ \E pair \in {Head(tpFrames[Len(tpFrames)].todo)} :
       \E tracer \in {TracerOf(observer, pair.rule, pair.start)} :
           /\ observer' = EnterRule(observer, pair.rule, pair.start)
           /\ tpFrames' = Append([tpFrames EXCEPT ![Len(tpFrames)].todo = Tail(@)],
                                 Frame(tracer, pair.children, pair.end))
           /\ notes' = Append(notes, EnterNote(tracer))
    /\ UNCHANGED <<tpPc, tpResult, tpCount>>

\* trace_pair has traced the inner pairs: tracer.success(end_pos) (line 99)
TracePairSuccess ==
    /\ tpPc = "trace"
    /\ Len(tpFrames) > 1
    /\ tpFrames[Len(tpFrames)].todo = <<>>
    /\ \E frame \in {tpFrames[Len(tpFrames)]} :
           /\ observer' = TracerSuccess(observer, frame.tracer, frame.end)
           /\ notes' = Append(notes, ResultNote(frame.tracer, TRUE))
    /\ tpFrames' = SubSeq(tpFrames, 1, Len(tpFrames) - 1)
    /\ UNCHANGED <<tpPc, tpResult, tpCount>>

\* every top-level pair is traced: tracer.success(input.len()) (line 69),
\* and the function returns Ok
TopSuccess ==
    /\ tpPc = "trace"
    /\ Len(tpFrames) = 1
    /\ tpFrames[1].todo = <<>>
    /\ observer' = TracerSuccess(observer, tpFrames[1].tracer, tpFrames[1].end)
    /\ notes' = Append(notes, ResultNote(tpFrames[1].tracer, TRUE))
    /\ tpFrames' = <<>>
    /\ tpPc' = "returned"
    /\ UNCHANGED <<tpResult, tpCount>>

\* the Err arm (lines 71-74): the tracer goes out of scope as the function
\* returns Err
TopFailure ==
    /\ tpPc = "failed"
    /\ observer' = TracerDrop(observer, tpFrames[1].tracer)
    /\ notes' = Append(notes, ResultNote(tpFrames[1].tracer, FALSE))
    /\ tpFrames' = <<>>
    /\ tpPc' = "returned"
    /\ UNCHANGED <<tpResult, tpCount>>

\* the caller has the result; it may parse again with the same observer
NextTrace ==
    /\ tpPc = "returned"
    /\ tpPc' = "idle"
    /\ tpResult' = <<"None">>
    /\ UNCHANGED <<observer, tpFrames, tpCount, notes>>

ObserverNext ==
    \/ EnterTopRule /\ UNCHANGED <<driverVars, nativeVars, evalVars, bindVars, declVars, diagVars, parseVars, lsmVars, qVars, hashVars, resultVars, workerVars>>
    \/ InnerParse /\ UNCHANGED <<driverVars, nativeVars, evalVars, bindVars, declVars, diagVars, parseVars, lsmVars, qVars, hashVars, resultVars, workerVars>>
    \/ TracePairEnter /\ UNCHANGED <<driverVars, nativeVars, evalVars, bindVars, declVars, diagVars, parseVars, lsmVars, qVars, hashVars, resultVars, workerVars>>
    \/ TracePairSuccess /\ UNCHANGED <<driverVars, nativeVars, evalVars, bindVars, declVars, diagVars, parseVars, lsmVars, qVars, hashVars, resultVars, workerVars>>
    \/ TopSuccess /\ UNCHANGED <<driverVars, nativeVars, evalVars, bindVars, declVars, diagVars, parseVars, lsmVars, qVars, hashVars, resultVars, workerVars>>
    \/ TopFailure /\ UNCHANGED <<driverVars, nativeVars, evalVars, bindVars, declVars, diagVars, parseVars, lsmVars, qVars, hashVars, resultVars, workerVars>>
    \/ NextTrace /\ UNCHANGED <<driverVars, nativeVars, evalVars, bindVars, declVars, diagVars, parseVars, lsmVars, qVars, hashVars, resultVars, workerVars>>

ObserverSpec == ObserverInit /\ [][ObserverNext]_vars

(***************************************************************************)
(* LsmSpec: processes open an LSMTree over one WAL directory, one after    *)
(* the other, with init or with recover, and put rows of the schema        *)
(* (a: Int64, b: Utf8).                                                    *)
(***************************************************************************)
LsmRows ==
    {<<ScalarInt64(1), ScalarUtf8("x")>>, <<ScalarInt64(2), ScalarUtf8("y")>>,
     <<ScalarInt64(1), ScalarUtf8("y")>>, <<ScalarInt64(0), ScalarUtf8("")>>}

LsmSpecInit ==
    /\ DriverIdle
    /\ NativeIdle
    /\ EvalIdle
    /\ BindIdle
    /\ DeclIdle
    /\ DiagIdle
    /\ ParseIdle
    /\ QIdle
    /\ ObserverIdle
    /\ ResultIdle
    /\ HashIdle
    /\ WorkerIdle
    /\ walLog = <<>>
    /\ lsmTree = <<"None">>

\* LSMTree::init(config)
TreeInit ==
    /\ lsmTree = <<"None">>
    /\ lsmTree' = LsmInit("init")
    /\ UNCHANGED walLog

\* LSMTree::recover(config)
TreeRecover ==
    /\ lsmTree = <<"None">>
    /\ lsmTree' = LsmRecover
    /\ UNCHANGED walLog

\* tree.put(row) (lsm.rs lines 55-64)
TreePut ==
    /\ lsmTree[1] = "Some"
    /\ Len(walLog) < MaxRows
    /\ \E row \in LsmRows :
           /\ walLog' = WalAppend(walLog, BincodeSerialize(row))
           /\ lsmTree' = <<"Some", [lsmTree[2] EXCEPT
                               !.memtable = AppendRow(@, row), !.puts = @ + 1]>>

\* the tree is dropped (the process ends); wal.log stays
TreeDrop ==
    /\ lsmTree[1] = "Some"
    /\ lsmTree' = <<"None">>
    /\ UNCHANGED walLog

LsmNext ==
    \/ TreeInit /\ UNCHANGED <<driverVars, nativeVars, evalVars, bindVars, declVars, diagVars, parseVars, observerVars, qVars, hashVars, resultVars, workerVars>>
    \/ TreeRecover /\ UNCHANGED <<driverVars, nativeVars, evalVars, bindVars, declVars, diagVars, parseVars, observerVars, qVars, hashVars, resultVars, workerVars>>
    \/ TreePut /\ UNCHANGED <<driverVars, nativeVars, evalVars, bindVars, declVars, diagVars, parseVars, observerVars, qVars, hashVars, resultVars, workerVars>>
    \/ TreeDrop /\ UNCHANGED <<driverVars, nativeVars, evalVars, bindVars, declVars, diagVars, parseVars, observerVars, qVars, hashVars, resultVars, workerVars>>

LsmSpec == LsmSpecInit /\ [][LsmNext]_vars

(***************************************************************************)
(* QSpec: parse and eval_str of the qparser crate (lib.rs) called on the   *)
(* texts of the expressions of at most two operators, written with the     *)
(* usual rules for leaving parentheses out, and on further texts.          *)
(***************************************************************************)
QLiterals == 1..MaxLiteral
QOperators == {"+", "-", "*", "/"}

RECURSIVE QTreesOf(_)
\* the expressions of exactly n operators
QTreesOf(n) ==
    IF n = 0 THEN {QInt(i) : i \in QLiterals}
    ELSE UNION {{QNode(op, l, r) : op \in QOperators,
                                   l \in QTreesOf(k), r \in QTreesOf(n - 1 - k)} :
                k \in 0..(n - 1)}

QTrees == QTreesOf(0) \cup QTreesOf(1) \cup QTreesOf(2)

\* how tightly a node holds its operands: a sum, a product, an atom
Binding(expr) ==
    CASE expr[1] \in {"Add", "Sub"} -> 1
      [] expr[1] \in {"Mul", "Div"} -> 2
      [] OTHER -> 3

QStyles == {"tight", "spaced", "full"}

Gap(style) == IF style = "tight" THEN <<>> ELSE <<" ">>

RECURSIVE Written(_, _, _)
\* the text of expr where an operand binding at least `needed` may stand
\* bare: the left operand of an operator may be of its own binding, the
\* right one must bind tighter; style "full" brackets every operation
Written(expr, needed, style) ==
    IF expr[1] = "Int" THEN <<ToDecimal(expr[2])>>
    ELSE LetIn(Written(expr[2], Binding(expr), style) \o Gap(style)
                   \o <<QOperator(expr)>> \o Gap(style)
                   \o Written(expr[3], Binding(expr) + 1, style),
               LAMBDA text :
                   IF Binding(expr) < needed \/ style = "full"
                   THEN <<"(">> \o Gap(style) \o text \o Gap(style) \o <<")">>
                   ELSE text)

Text(expr, style) == Written(expr, 1, style)

\* texts with a float, with no operand, with digits after a 0, with nothing
QOtherInputs ==
    {<<"7", "/", "2">>, <<"1", ".", "5", "*", "2">>, <<"1", "+">>, <<>>,
     <<"0", "1", "2">>, <<")">>, <<"1", "/", "0">>, <<"1", "0", "-", "2", "5">>,
     <<"0", ".", "2", "5", "+", "1">>, <<"(", "1", "+", "2">>}

QInit ==
    /\ DriverIdle
    /\ BindIdle
    /\ DeclIdle
    /\ DiagIdle
    /\ ParseIdle
    /\ ObserverIdle
    /\ LsmIdle
    /\ NativeIdle
    /\ EvalIdle
    /\ HashIdle
    /\ QIdle
    /\ WorkerIdle
    /\ ResultIdle

\* the texts drawn: a writing of an expression, with that expression, or
\* another text
QWritings ==
    {<<Text(t, style), t>> : t \in QTrees, style \in QStyles}
        \cup {<<input, <<"None">>>> : input \in QOtherInputs}

QCall(function, w, out) ==
    qCall' = [function |-> function, input |-> w[1], written |-> w[2], out |-> out]

\* parse(input) (lib.rs lines 16-18)
QParseCall ==
    /\ qCall.function = ""
    /\ \E w \in QWritings : QCall("parse", w, QParseExpr(w[1]))

\* eval_str(input) (lib.rs lines 23-29)
EvalStrCall ==
    /\ qCall.function = ""
    /\ \E w \in QWritings : QCall("eval_str", w, EvalStr(w[1]))

\* the caller is done with the result
QReturn ==
    /\ qCall.function # ""
    /\ qCall' = [function |-> "", input |-> <<>>, written |-> <<"None">>,
                 out |-> <<"None">>]

QNext ==
    \/ QParseCall /\ UNCHANGED <<driverVars, nativeVars, evalVars, bindVars, declVars, diagVars, parseVars, observerVars, lsmVars, hashVars, resultVars, workerVars>>
    \/ QReturn /\ UNCHANGED <<driverVars, nativeVars, evalVars, bindVars, declVars, diagVars, parseVars, observerVars, lsmVars, hashVars, resultVars, workerVars>>
    \/ EvalStrCall /\ UNCHANGED <<driverVars, nativeVars, evalVars, bindVars, declVars, diagVars, parseVars, observerVars, lsmVars, hashVars, resultVars, workerVars>>

QSpec == QInit /\ [][QNext]_vars

(***************************************************************************)
(* HashSpec: two Values are compared with == and then hashed, as a table   *)
(* of the evaluator does with a probe and a stored key.                    *)
(***************************************************************************)
HashScalars ==
    {VInteger(I64(0)), VInteger(I64(1)), VInteger(I64(-1)),
     <<"Float", 0, 0>>, <<"Float", 1, 0>>, <<"Float", 1, -1>>, <<"Float", -1, 0>>,
     F64NaN, F64NegZero,
     VBoolean(TRUE), VString("a"), VSymbol("a"), VNull, VVoid}

HashCollections ==
    {VList(<<>>), VList(<<VInteger(I64(1))>>), VList(<<<<"Float", 1, 0>>>>),
     VSet({}), VSet({VInteger(I64(1))}), VSet({<<"Float", 1, 0>>}),
     VSet({F64NaN, <<"Float", 0, 0>>}),
     VMap(NoBindings), VMap([k \in {VString("k")} |-> VInteger(I64(1))]),
     VMap([k \in {VString("k")} |-> <<"Float", 1, 0>>])}

HashValues == HashScalars \cup HashCollections \cup {VNative("+")}

HashInit ==
    /\ DriverIdle
    /\ NativeIdle
    /\ EvalIdle
    /\ BindIdle
    /\ DeclIdle
    /\ DiagIdle
    /\ ParseIdle
    /\ ObserverIdle
    /\ LsmIdle
    /\ QIdle
    /\ HashIdle
    /\ WorkerIdle
    /\ ResultIdle

\* a == b
CompareValues ==
    /\ hashCall.eq = <<"None">>
    /\ \E a \in HashValues, b \in HashValues :
           hashCall' = [hashCall EXCEPT !.a = a, !.b = b, !.eq = <<"Some", ValueEq(a, b)>>]

\* a.hash(state) and b.hash(state), each with a new hasher
HashBoth ==
    /\ hashCall.eq # <<"None">>
    /\ hashCall.hash_a = <<"None">>
    /\ hashCall' = [hashCall EXCEPT !.hash_a = HashValue(hashCall.a),
                                    !.hash_b = HashValue(hashCall.b)]

\* the two values are dropped
ForgetValues ==
    /\ hashCall.hash_a # <<"None">>
    /\ hashCall' = [a |-> <<>>, b |-> <<>>, eq |-> <<"None">>,
                    hash_a |-> <<"None">>, hash_b |-> <<"None">>]

HashNext ==
    \/ CompareValues /\ UNCHANGED <<driverVars, nativeVars, evalVars, bindVars, declVars, diagVars, parseVars, observerVars, lsmVars, qVars, resultVars, workerVars>>
    \/ HashBoth /\ UNCHANGED <<driverVars, nativeVars, evalVars, bindVars, declVars, diagVars, parseVars, observerVars, lsmVars, qVars, resultVars, workerVars>>
    \/ ForgetValues /\ UNCHANGED <<driverVars, nativeVars, evalVars, bindVars, declVars, diagVars, parseVars, observerVars, lsmVars, qVars, resultVars, workerVars>>

HashSpec == HashInit /\ [][HashNext]_vars

(***************************************************************************)
(* ResultSpec: parse_files_deterministic_result(files, parser_fn) on a     *)
(* rayon pool of NumThreads threads, then get_ordered_results on what it   *)
(* returned.  The indices are the caller's: any numbers, in any order.     *)
(***************************************************************************)
FileContents ==
    {<<"s", "h", "o", "r", "t">>, <<"b", "o", "r", "f", "!", "!">>,
     <<"l", "e", "t", " ", "x", " ", "=", " ", "4", "2", ";">>}

IndexedFileLists ==
    UNION {[1..n -> (0..MaxJobs) \X FileContents] : n \in 0..MaxJobs}

ResultInit ==
    /\ DriverIdle
    /\ NativeIdle
    /\ EvalIdle
    /\ BindIdle
    /\ DeclIdle
    /\ DiagIdle
    /\ ParseIdle
    /\ ObserverIdle
    /\ LsmIdle
    /\ QIdle
    /\ HashIdle
    /\ WorkerIdle
    /\ indexedFiles \in IndexedFileLists
    /\ fileJobs = [k \in 1..Len(indexedFiles) |-> [st |-> "queued", parsed |-> <<"None">>]]
    /\ fileResults = EmptyMap
    /\ filePc = "for_each"
    /\ ordered = <<>>

FilesRunning == {k \in 1..Len(fileJobs) : fileJobs[k].st = "parsed"}

\* a pool thread takes an item and runs parser_fn(&content) (line 159)
FileParse(k) ==
    /\ filePc = "for_each"
    /\ fileJobs[k].st = "queued"
    /\ Cardinality(FilesRunning) < NumThreads
    /\ fileJobs' = [fileJobs EXCEPT ![k] = [st |-> "parsed",
                                           parsed |-> ExampleParserFn(indexedFiles[k][2])]]
    /\ UNCHANGED <<indexedFiles, fileResults, filePc, ordered>>

\* results.insert(index, parsed) (line 160)
FileInsert(k) ==
    /\ filePc = "for_each"
    /\ fileJobs[k].st = "parsed"
    /\ fileResults' = Insert(fileResults, indexedFiles[k][1], fileJobs[k].parsed)
    /\ fileJobs' = [fileJobs EXCEPT ![k].st = "done"]
    /\ UNCHANGED <<indexedFiles, filePc, ordered>>

\* for_each returns once every closure has returned, and results is returned
FileForEachReturns ==
    /\ filePc = "for_each"
    /\ \A k \in 1..Len(fileJobs) : fileJobs[k].st = "done"
    /\ filePc' = "returned"
    /\ UNCHANGED <<indexedFiles, fileJobs, fileResults, ordered>>

\* parse_results.get_ordered_results() (line 184)
FileGetOrdered ==
    /\ filePc = "returned"
    /\ ordered' = GetOrderedResults(fileResults)
    /\ fileResults' = EmptyMap
    /\ filePc' = "ordered"
    /\ UNCHANGED <<indexedFiles, fileJobs>>

ResultNext ==
    \/ (\E k \in 1..Len(fileJobs) : FileParse(k)) /\ UNCHANGED <<driverVars, nativeVars, evalVars, bindVars, declVars, diagVars, parseVars, observerVars, lsmVars, qVars, hashVars, workerVars>>
    \/ (\E k \in 1..Len(fileJobs) : FileInsert(k)) /\ UNCHANGED <<driverVars, nativeVars, evalVars, bindVars, declVars, diagVars, parseVars, observerVars, lsmVars, qVars, hashVars, workerVars>>
    \/ FileForEachReturns /\ UNCHANGED <<driverVars, nativeVars, evalVars, bindVars, declVars, diagVars, parseVars, observerVars, lsmVars, qVars, hashVars, workerVars>>
    \/ FileGetOrdered /\ UNCHANGED <<driverVars, nativeVars, evalVars, bindVars, declVars, diagVars, parseVars, observerVars, lsmVars, qVars, hashVars, workerVars>>

ResultSpec == ResultInit /\ [][ResultNext]_vars

(***************************************************************************)
(* WorkerSpec: run_workers(num_workers, tasks) (concurrent.rs lines        *)
(* 191-225).  A task is what running it does: it returns, or it panics.    *)
(* The main thread sends every task and drops the sender, spawns the       *)
(* workers one by one while those spawned already run, and joins them in   *)
(* the order it spawned them.                                              *)
(***************************************************************************)
TaskKinds == {"returns", "panics"}

WorkerInit ==
    /\ DriverIdle
    /\ NativeIdle
    /\ EvalIdle
    /\ BindIdle
    /\ DeclIdle
    /\ DiagIdle
    /\ ParseIdle
    /\ ObserverIdle
    /\ LsmIdle
    /\ QIdle
    /\ HashIdle
    /\ ResultIdle
    /\ numWorkers \in 0..MaxWorkers
    /\ tasks \in UNION {[1..n -> TaskKinds] : n \in 0..MaxTasks}
    /\ taskQueue = <<>>
    /\ handles = <<>>
    /\ runs = [k \in 1..Len(tasks) |-> 0]
    /\ workerPc = "called"
    /\ workerRet = <<"None">>

\* `if tasks.is_empty() { return Ok(()) }` (lines 196-198)
ReturnNoTasks ==
    /\ workerPc = "called"
    /\ tasks = <<>>
    /\ workerPc' = "returned"
    /\ workerRet' = <<"Ok">>
    /\ UNCHANGED <<numWorkers, tasks, taskQueue, handles, runs>>

\* every task is sent to the unbounded channel and the sender is dropped
\* (lines 200-209): a send to a channel whose receiver lives does not fail
SendTasks ==
    /\ workerPc = "called"
    /\ tasks # <<>>
    /\ taskQueue' = [k \in 1..Len(tasks) |-> k]
    /\ workerPc' = "spawn"
    /\ UNCHANGED <<numWorkers, tasks, handles, runs, workerRet>>

\* one turn of `for _ in 0..num_workers`: thread::spawn (lines 211-219), or
\* the end of the loop
SpawnWorker ==
    /\ workerPc = "spawn"
    /\ IF Len(handles) < numWorkers
       THEN /\ handles' = Append(handles, <<"recv">>)
            /\ UNCHANGED workerPc
       ELSE /\ workerPc' = "join"
            /\ UNCHANGED handles
    /\ UNCHANGED <<numWorkers, tasks, taskQueue, runs, workerRet>>

\* receiver.recv() of worker w (line 214): the oldest task of the channel,
\* or Err when the channel is empty, its sender being dropped
WorkerRecv(w) ==
    /\ handles[w] = <<"recv">>
    /\ IF taskQueue # <<>>
       THEN /\ handles' = [handles EXCEPT ![w] = <<"task", Head(taskQueue)>>]
            /\ taskQueue' = Tail(taskQueue)
       ELSE /\ handles' = [handles EXCEPT ![w] = <<"finished">>]
            /\ UNCHANGED taskQueue
    /\ UNCHANGED <<numWorkers, tasks, runs, workerPc, workerRet>>

\* task() of worker w (line 215): a panic unwinds the thread
WorkerRunTask(w) ==
    /\ handles[w][1] = "task"
    /\ runs' = [runs EXCEPT ![handles[w][2]] = @ + 1]
    /\ handles' = [handles EXCEPT ![w] =
                      IF tasks[handles[w][2]] = "panics" THEN <<"panicked">>
                      ELSE <<"recv">>]
    /\ UNCHANGED <<numWorkers, tasks, taskQueue, workerPc, workerRet>>

\* one turn of `for handle in handles` (lines 221-223): join waits for the
\* thread to end; a panicked thread makes run_workers return Err at once
JoinWorker ==
    /\ workerPc = "join"
    /\ \E w \in 1..Len(handles) :
           /\ \A v \in 1..(w - 1) : handles[v] = <<"joined">>
           /\ handles[w] # <<"joined">>
           /\ handles[w][1] \in {"finished", "panicked"}
           /\ IF handles[w] = <<"panicked">>
              THEN /\ workerPc' = "returned"
                   /\ workerRet' = <<"Err", "Worker thread panicked">>
                   /\ UNCHANGED handles
              ELSE /\ handles' = [handles EXCEPT ![w] = <<"joined">>]
                   /\ UNCHANGED <<workerPc, workerRet>>
    /\ UNCHANGED <<numWorkers, tasks, taskQueue, runs>>

\* Ok(()) after the last join (line 225)
ReturnOk ==
    /\ workerPc = "join"
    /\ \A w \in 1..Len(handles) : handles[w] = <<"joined">>
    /\ workerPc' = "returned"
    /\ workerRet' = <<"Ok">>
    /\ UNCHANGED <<numWorkers, tasks, taskQueue, handles, runs>>

WorkerNext ==
    \/ ReturnNoTasks /\ UNCHANGED <<driverVars, nativeVars, evalVars, bindVars, declVars, diagVars, parseVars, observerVars, lsmVars, qVars, hashVars, resultVars>>
    \/ SendTasks /\ UNCHANGED <<driverVars, nativeVars, evalVars, bindVars, declVars, diagVars, parseVars, observerVars, lsmVars, qVars, hashVars, resultVars>>
    \/ SpawnWorker /\ UNCHANGED <<driverVars, nativeVars, evalVars, bindVars, declVars, diagVars, parseVars, observerVars, lsmVars, qVars, hashVars, resultVars>>
    \/ (\E w \in 1..Len(handles) : WorkerRecv(w)) /\ UNCHANGED <<driverVars, nativeVars, evalVars, bindVars, declVars, diagVars, parseVars, observerVars, lsmVars, qVars, hashVars, resultVars>>
    \/ (\E w \in 1..Len(handles) : WorkerRunTask(w)) /\ UNCHANGED <<driverVars, nativeVars, evalVars, bindVars, declVars, diagVars, parseVars, observerVars, lsmVars, qVars, hashVars, resultVars>>
    \/ JoinWorker /\ UNCHANGED <<driverVars, nativeVars, evalVars, bindVars, declVars, diagVars, parseVars, observerVars, lsmVars, qVars, hashVars, resultVars>>
    \/ ReturnOk /\ UNCHANGED <<driverVars, nativeVars, evalVars, bindVars, declVars, diagVars, parseVars, observerVars, lsmVars, qVars, hashVars, resultVars>>

WorkerSpec == WorkerInit /\ [][WorkerNext]_vars
(***************************************************************************)
(* Claims about the deterministic parallel driver (under DriverSpec).      *)
(***************************************************************************)
\* what the job submitted for `path` produces, whichever thread runs it
JobResult(path) ==
    LET rd == ReadToString(path)
    IN  IF rd[1] = "Ok" THEN ParseContent(rd[2]) ELSE rd

Returned == pc = "returned"

\* C1: when parse_files_deterministic has returned, the vector has one element
\* per path and the element at position i is the result of the job submitted
\* at index i, whatever the order in which the jobs completed.
C1_ResultsInSubmissionOrder ==
    Returned =>
        /\ Len(ret) = Len(paths)
        /\ \A i \in 1..Len(paths) : ret[i] = JobResult(paths[i])

\* a call returned whose jobs, with pairwise different results, stored their
\* results in an order other than the submission order
C1_Witness ==
    /\ Returned
    /\ Len(paths) >= 2
    /\ \E i, j \in 1..Len(insertOrder) : i < j /\ insertOrder[i] > insertOrder[j]
    /\ \A i, j \in 1..Len(paths) : i # j => paths[i] # paths[j]

\* C2: the call returns only after every scheduled job has run to completion,
\* and the returned vector holds exactly one result for each submitted index
\* 0..N-1, none missing and none twice.
C2_EveryJobCompletesOnce ==
    Returned =>
        /\ \A k \in 1..Len(jobs) : jobs[k].st = "done"
        /\ wg = 0
        /\ Len(insertOrder) = Len(paths)
        /\ retIdx = [i \in 1..Len(paths) |-> i - 1]

\* a call with the longest argument returned after running at least two parses
C2_Witness ==
    /\ Returned
    /\ Len(paths) = MaxFiles
    /\ Len(jobs) >= 2
    /\ Len(ret) = MaxFiles

UnreadableIdx == {i \in 0..(Len(paths) - 1) : FileKind(paths[i + 1]) = "unreadable"}

\* C3: a job whose file cannot be read has its I/O error stored at its own
\* index as soon as the read phase has passed it, and is never scheduled: it
\* is no work item, no parser is created and process_pairs is never called
\* for it. Every other job is a work item under its own index, and once the
\* call returns each of them has been parsed.
C3_UnreadableRecordedNotScheduled ==
    /\ \A i \in UnreadableIdx :
          /\ (i < readIdx /\ pc \in {"read", "parse", "wait", "drain"}) =>
                 (i \in DOMAIN results /\ results[i] = <<"Err", <<"Io", paths[i + 1]>>>>)
          /\ i \notin parsers
          /\ i \notin processed
          /\ \A k \in 1..Len(work) : work[k][1] # i
    /\ \A k \in 1..Len(work) :
          /\ work[k][1] \in 0..(Len(paths) - 1)
          /\ work[k][2] = paths[work[k][1] + 1]
    /\ \A i \in (0..(readIdx - 1)) \ UnreadableIdx :
          \E k \in 1..Len(work) : work[k][1] = i
    /\ Returned =>
          /\ parsers = (0..(Len(paths) - 1)) \ UnreadableIdx
          /\ \A i \in UnreadableIdx : ret[i + 1] = <<"Err", <<"Io", paths[i + 1]>>>>
          /\ \A i \in (0..(Len(paths) - 1)) \ UnreadableIdx :
                ret[i + 1] = ParseContent(<<"content", paths[i + 1]>>)

\* a call returned that had an unreadable file before a readable one
C3_Witness ==
    /\ Returned
    /\ \E i, j \in 1..Len(paths) :
          /\ i < j
          /\ FileKind(paths[i]) = "unreadable"
          /\ FileKind(paths[j]) = "valid"
          /\ (j - 1) \in parsers

(***************************************************************************)
(* Claims about the native arithmetic primitives (under NativeSpec).       *)
(***************************************************************************)
\* the last call applied an arithmetic primitive to two Integers
IntegerCall ==
    /\ nativeCall.out # <<"None">>
    /\ nativeCall.name \in ArithmeticNames
    /\ Len(nativeCall.args) = 2
    /\ nativeCall.args[1][1] = "Integer"
    /\ nativeCall.args[2][1] = "Integer"

\* the mathematical result of the last call is defined and outside i64
TrueResultOverflows ==
    /\ IntegerCall
    /\ ~(nativeCall.name = "/" /\ nativeCall.args[2][2] = I64Zero)
    /\ ~FitsI64(TrueResult(nativeCall.name, nativeCall.args[1][2],
                           nativeCall.args[2][2]))

\* C5: whenever the true result of +, -, * or / on two Integers does not fit
\* in the 64-bit signed range, the primitive fails with InvalidOperation: it
\* neither returns a wrapped value nor panics.
C5_OverflowChecked ==
    TrueResultOverflows =>
        /\ nativeCall.out[1] = "Err"
        /\ nativeCall.out[2][1] = "InvalidOperation"

\* the last call divided by the Integer 0 or the Float 0.0
DividesByZero ==
    /\ nativeCall.out # <<"None">>
    /\ nativeCall.name = "/"
    /\ Len(nativeCall.args) = 2
    /\ nativeCall.args[2] \in {VInteger(I64Zero), <<"Float", 0, 0>>}

\* C6: native division by the Integer 0 or by the Float 0.0 fails with
\* DivisionByZero whatever the dividend is, in every build; it never panics
\* and never returns a value.
C6_DivisionByZeroIsAnError ==
    DividesByZero => nativeCall.out = Err(DivisionByZero)

C6_Witness ==
    /\ DividesByZero
    /\ nativeCall.args[1] = VInteger(I64Min)
    /\ nativeCall.args[2] = VInteger(I64Zero)
    /\ overflowChecks
    /\ nativeCall.out = Err(DivisionByZero)

(***************************************************************************)
(* Properties of the evaluator, read off the history of the evaluation the *)
(* REPL performed last: `trace` holds its events in the order they         *)
(* happened, evalResult its outcome, evalHeap the frames when it ended.    *)
(***************************************************************************)
Events == 1..Len(trace)
Tag(k) == trace[k][1]

\* the elements of a set of event indices in increasing order
Ordered(S) ==
    CHOOSE s \in [1..Cardinality(S) -> S] :
        \A i, j \in 1..Cardinality(S) : i < j => s[i] < s[j]

\* the first event after k that satisfies Is, or Len(trace) + 1
FirstAfter(k, Is(_)) ==
    IF \E j \in (k + 1)..Len(trace) : Is(j)
    THEN CHOOSE j \in (k + 1)..Len(trace) : Is(j) /\ \A i \in (k + 1)..(j - 1) : ~Is(i)
    ELSE Len(trace) + 1

\* the return of the call of eval at event k
ExitOf(k) == FirstAfter(k, LAMBDA j : Tag(j) = "exit" /\ trace[j][2] = trace[k][2])

\* a value Hash for Value panics on: it is or holds a Function, Module or Quote
NonHashable(v) == HashPanics(v) # <<"None">>

HashPanicOutcomes ==
    {Panic("Attempted to hash non-hashable type: " \o t) :
        t \in {"Function", "Module", "Quote"}}

SpliceSites == {"UnquoteSplice List", "UnquoteSplice Set"}

\* every insertion is of a value the predicate was asked about before, at the
\* same place, and is of a hashable value; no outcome is the panic of Hash
CheckedBeforeInsertion ==
    /\ \A k \in Events :
           Tag(k) = "insert" =>
               /\ ~NonHashable(trace[k][2])
               /\ Cardinality({j \in 1..k : trace[j] = trace[k]})
                      <= Cardinality({j \in 1..k :
                             trace[j] = <<"is_hashable", trace[k][2], trace[k][3]>>})
    /\ evalResult \notin HashPanicOutcomes
    /\ \A k \in Events : Tag(k) = "exit" => trace[k][5] \notin HashPanicOutcomes

\* the events where a non-hashable value was about to become an element or key
RejectedAt == {k \in Events : Tag(k) = "is_hashable" /\ NonHashable(trace[k][2])}

\* C4, as stated: a Function, Module or Quote (directly or nested) that is about
\* to become a Set element or Map key is caught by the hashability predicate
\* before the insertion and the evaluation fails with HashingError, never with
\* the panic of Hash.
C4_AlwaysHashingError ==
    /\ CheckedBeforeInsertion
    /\ \A k \in RejectedAt :
           /\ evalResult[1] = "Err"
           /\ evalResult[2][1] = "HashingError"

\* C4: a Function, Module or Quote (directly or nested) that is about to
\* become a Set element or Map key is caught by the hashability predicate
\* before the insertion, never by the panic of Hash; the evaluation fails with
\* HashingError, except that it fails with QuasiquoteError when the value is an
\* element of a List or Set unquote-spliced into a quasiquoted Set.
C4_CheckedBeforeInsertion ==
    /\ CheckedBeforeInsertion
    /\ \A k \in RejectedAt :
           /\ evalResult[1] = "Err"
           /\ evalResult[2][1] = IF trace[k][3] \in SpliceSites
                                 THEN "QuasiquoteError" ELSE "HashingError"

\* `{1, [lambda () 1]}` entered: the Function nested in a List is rejected
C4_Witness ==
    /\ replInput = <<"Expression", ESet(<<Num(1), EList(<<ConstFn>>)>>)>>
    /\ \E k \in RejectedAt : trace[k][2][1] = "List" /\ trace[k][3] = "Set"
    /\ evalResult[1] = "Err"
    /\ evalResult[2][1] = "HashingError"

\* the calls of eval on an Application
ApplicationsAt == {k \in Events : Tag(k) = "eval" /\ trace[k][3][1] = "Application"}

\* the call of apply_function the Application at k makes, if it makes one
ApplyOf(k) ==
    {j \in (k + 1)..(ExitOf(k) - 1) : Tag(j) = "apply" /\ trace[j][2] = trace[k][2]}

\* the returns of the evaluations of the callee and the arguments of k
OperandExits(k) ==
    {j \in (k + 1)..(ExitOf(k) - 1) :
        /\ Tag(j) = "exit"
        /\ trace[j][2] = trace[k][2] + 1
        /\ \A a \in ApplyOf(k) : j < a}

\* callee, then the arguments
Operands(expr) == <<expr[2]>> \o expr[3]

InOrderThenApply(k) ==
    LET d == trace[k][2]
        expr == trace[k][3]
        env == trace[k][4]
        exits == Ordered(OperandExits(k))
        n == Len(exits)
        Out(i) == trace[exits[i]][5]
    IN  /\ n >= 1
        /\ n <= Len(Operands(expr))
        /\ \A i \in 1..n :
               /\ trace[IF i = 1 THEN k + 1 ELSE exits[i - 1] + 1]
                      = <<"eval", d + 1, Operands(expr)[i], env>>
               /\ trace[exits[i]][3] = Operands(expr)[i]
               /\ i < n => Out(i)[1] = "Ok"
        /\ IF Out(n)[1] # "Ok"
           THEN /\ ApplyOf(k) = {}
                /\ ExitOf(k) = exits[n] + 1
                /\ trace[ExitOf(k)][5] = Out(n)
           ELSE /\ n = Len(Operands(expr))
                /\ ApplyOf(k) = {exits[n] + 1}
                /\ trace[exits[n] + 1] =
                       <<"apply", d, Out(1)[2],
                         [i \in 1..Len(expr[3]) |-> Out(i + 1)[2]]>>

\* C7: an Application evaluates the callee, then the arguments from left to
\* right, each after the one before it returned, and only then applies the
\* function to their values; the first of them that fails ends the
\* Application with its error and the function is not applied.
C7_CalleeThenArgumentsThenApply == \A k \in ApplicationsAt : InOrderThenApply(k)

\* `f(1 / 0, u)` with f declared and u unbound: the first argument's error
C7_Witness ==
    /\ replInput = <<"Expression", App(Var("f"), <<DivZero, Var("u")>>)>>
    /\ Lookup(heap, GlobalEnv, "f") # <<"None">>
    /\ evalResult = Err(DivisionByZero)
    /\ \E k \in ApplicationsAt : Cardinality(OperandExits(k)) = 2 /\ ApplyOf(k) = {}

\* the calls of apply_function on a Closure
ClosureCallsAt ==
    {k \in Events : /\ Tag(k) = "apply"
                    /\ trace[k][3][1] = "Function"
                    /\ trace[k][3][2][1] = "Closure"}
Params(k) == trace[k][3][2][2]
Body(k) == trace[k][3][2][3]
CapturedEnv(k) == trace[k][3][2][4]
Args(k) == trace[k][4]

MismatchedCallsAt == {k \in ClosureCallsAt : Len(Params(k)) # Len(Args(k))}
MatchedCallsAt == {k \in ClosureCallsAt : Len(Params(k)) = Len(Args(k))}

\* C8: a Closure applied to a number of arguments other than its number of
\* parameters returns ArityMismatch with the expected and the found count at
\* once: no frame is created, no pattern bound and nothing evaluated between
\* the call and its return.
C8_ArityMismatchFirst ==
    \A k \in MismatchedCallsAt :
        /\ k < Len(trace)
        /\ Tag(k + 1) = "exit"
        /\ trace[k + 1][2] = trace[k][2]
        /\ trace[k + 1][5] = Err(ArityMismatch("Closure",
                                     UsizeToString(Len(Params(k))), Len(Args(k))))

\* `(lambda (a) a)(1, 2)` entered
C8_Witness ==
    /\ replInput = <<"Expression", App(IdentityFn, <<Num(1), Num(2)>>)>>
    /\ MismatchedCallsAt # {}
    /\ evalResult = Err(ArityMismatch("Closure", "1", 2))
    /\ \A k \in Events : Tag(k) # "new_extending"

\* the frame the call at k creates, and where its binding ends: the call of
\* eval on the body, or the return of the call when a pattern did not match
FrameOf(k) == trace[k + 1][2]
BindingEnd(k) == FirstAfter(k, LAMBDA j : Tag(j) \in {"eval", "exit"})

\* the environment of the eval that makes the call at k
CallerEnv(k) ==
    LET callers == {j \in 1..k : Tag(j) = "eval" /\ trace[j][2] = trace[k][2]}
    IN  trace[CHOOSE j \in callers : \A i \in callers : i <= j][4]

FramesCreated == {k \in Events : Tag(k) = "new_extending"}

InItsOwnFrame(k) ==
    LET idx == FrameOf(k)
        binding == (k + 2)..(BindingEnd(k) - 1)
    IN  /\ Tag(k + 1) = "new_extending"
        /\ trace[k + 1][3] = CapturedEnv(k)
        /\ idx \notin {CapturedEnv(k), CallerEnv(k)}
        /\ idx > Len(evalHeap) - Cardinality(FramesCreated)
        /\ \A j \in FramesCreated : j # k + 1 => trace[j][2] # idx
        /\ evalHeap[idx].outer = CapturedEnv(k)
        /\ \A j \in binding :
               /\ Tag(j) \in {"bind_pattern", "define"}
               /\ Tag(j) = "define" => trace[j][2] = idx
        /\ \A n \in DOMAIN evalHeap[idx].bindings :
               \E j \in binding : trace[j] = <<"define", idx, n, evalHeap[idx].bindings[n]>>
        /\ BindingEnd(k) <= Len(trace)
        /\ Tag(BindingEnd(k)) = "eval" =>
               /\ trace[BindingEnd(k)] = <<"eval", trace[k][2] + 1, Body(k), idx>>
               /\ Cardinality({j \in binding : Tag(j) = "bind_pattern"}) = Len(Params(k))

\* let h = (let x = 1 in lambda (y) [x, y]) in let x = 7 in h(2): x is the x
\* of the frame the lambda was evaluated in, not the caller's
BodySeesCapturedChain ==
    replInput = <<"Expression", ScopeProgram>> =>
        evalResult = Ok(VList(<<VInteger(I64(1)), VInteger(I64(2))>>))

\* an expression entered at the prompt leaves the frames that existed as they were
ExpressionKeepsFrames ==
    replPc = "prompt" /\ replInput'[1] = "Expression" => heap' = heap

\* C9: applying a Closure to as many arguments as it has parameters creates one
\* new frame whose outer frame is the captured one, defines the bound names in
\* that frame and in no other, and evaluates the body there; the body's free
\* variables are those of the captured chain, and the frames that existed
\* before, the captured and the caller's among them, keep their bindings.
C9_NewChildOfCapturedFrame ==
    /\ [](\A k \in MatchedCallsAt : InItsOwnFrame(k))
    /\ []BodySeesCapturedChain
    /\ [][ExpressionKeepsFrames]_vars

\* the scope program entered: h was applied in a frame that binds x to 7
C9_Witness ==
    /\ replInput = <<"Expression", ScopeProgram>>
    /\ \E k \in MatchedCallsAt :
           /\ CallerEnv(k) # CapturedEnv(k)
           /\ Lookup(evalHeap, CallerEnv(k), "x") = <<"Some", VInteger(I64(7))>>
           /\ Lookup(evalHeap, CapturedEnv(k), "x") = <<"Some", VInteger(I64(1))>>
           /\ DOMAIN evalHeap[FrameOf(k)].bindings = {"y"}
    /\ evalResult = Ok(VList(<<VInteger(I64(1)), VInteger(I64(2))>>))

\* the returns of the evaluations of a Lambda
LambdaExits == {k \in Events : Tag(k) = "exit" /\ trace[k][3][1] = "Lambda"}

\* f is bound in the global frame to a closure of `lambda () y`
GlobalFIsLambdaY ==
    /\ "f" \in DOMAIN heap[GlobalEnv].bindings
    /\ heap[GlobalEnv].bindings["f"][1] = "Function"
    /\ heap[GlobalEnv].bindings["f"][2][1] = "Closure"
    /\ heap[GlobalEnv].bindings["f"][2][2] = <<>>
    /\ heap[GlobalEnv].bindings["f"][2][3] = Var("y")

\* C10: evaluating a Lambda in a frame gives a Closure that refers to that
\* very frame, and allocates no frame; when `f = lambda () y` was declared
\* and y is bound in the global frame, whether before or after, f() is y.
C10_CapturedBySharedReference ==
    /\ \A k \in LambdaExits :
           /\ trace[k][5] = Ok(VClosure(trace[k][3][2], trace[k][3][3], trace[k][4]))
           /\ trace[k - 1] = <<"eval", trace[k][2], trace[k][3], trace[k][4]>>
    /\ (/\ replInput = <<"Expression", App(Var("f"), <<>>)>>
        /\ GlobalFIsLambdaY
        /\ "y" \in DOMAIN heap[GlobalEnv].bindings)
           => evalResult = Ok(heap[GlobalEnv].bindings["y"])

\* f = lambda () y declared while y was unbound, then y = 2, then f() entered
C10_Witness ==
    /\ declared = <<DEntity("f", Lam(<<>>, Var("y"))), DEntity("y", Num(2))>>
    /\ replInput = <<"Expression", App(Var("f"), <<>>)>>
    /\ GlobalFIsLambdaY
    /\ evalResult = Ok(VInteger(I64(2)))

\* the calls of eval on a Let
LetsAt == {k \in Events : Tag(k) = "eval" /\ trace[k][3][1] = "Let"}

\* the return of the evaluation of the bound expression of the Let at k
BoundExit(k) == ExitOf(k + 1)

\* the frames created between the events k and j
FramesBetween(k, j) == {trace[i][2] : i \in {i \in k..j : Tag(i) = "new_extending"}}

\* the Let at k: the bound expression in the enclosing frame, then one new
\* child frame, the pattern's names defined there, then the body there
LetInOneChildFrame(k) ==
    LET d == trace[k][2]
        expr == trace[k][3]
        env == trace[k][4]
        v == BoundExit(k)
        out == trace[v][5]
        idx == trace[v + 1][2]
        end == FirstAfter(v + 2, LAMBDA j : Tag(j) \in {"eval", "exit"})
    IN  /\ trace[k + 1] = <<"eval", d + 1, expr[3], env>>
        /\ ExitOf(k) <= Len(trace)
        /\ IF out[1] # "Ok"
           THEN ExitOf(k) = v + 1 /\ trace[v + 1][5] = out
           ELSE /\ trace[v + 1] = <<"new_extending", idx, env>>
                /\ idx \notin FramesBetween(1, v)
                /\ idx # env
                /\ trace[v + 2] = <<"bind_pattern", expr[2], out[2]>>
                /\ \A j \in (v + 3)..(end - 1) :
                       Tag(j) = "define" /\ trace[j][2] = idx
                /\ IF Tag(end) = "eval"
                   THEN /\ trace[end] = <<"eval", d + 1, expr[4], idx>>
                        /\ BindPattern(expr[2], out[2], NoBindings)[2] = TRUE
                        /\ {trace[j][3] : j \in (v + 3)..(end - 1)}
                               = DOMAIN BindPattern(expr[2], out[2], NoBindings)[3]
                        /\ ExitOf(k) = ExitOf(end) + 1
                        /\ trace[ExitOf(k)][5] = trace[ExitOf(end)][5]
                   ELSE /\ end = v + 3
                        /\ end = ExitOf(k)
                        /\ trace[end][5][1] = "Err"
                        /\ BindPattern(expr[2], out[2], NoBindings) = <<"Ok", FALSE, NoBindings>>
                               => trace[end][5] = Err(PatternMatchFailed(
                                      Display(out[2]), DebugPattern(expr[2])))
        /\ \A j \in k..ExitOf(k) :
               Tag(j) = "define" => trace[j][2] \in FramesBetween(k, j)

\* C11: a Let evaluates the bound expression in the enclosing frame first,
\* binds the pattern in exactly one new child frame of it and evaluates the
\* body in that frame; nothing is defined in the enclosing frame or in any
\* frame that existed before, and a pattern that does not match the value
\* fails with PatternMatchFailed without the body being evaluated.
C11_LetInOneChildFrame == \A k \in LetsAt : LetInOneChildFrame(k)

\* `let x = 5 in x` entered while the global x is 1: 5, and x is still 1
C11_Witness ==
    /\ replInput = <<"Expression", ELet(PVariable("x"), Num(5), Var("x"))>>
    /\ Lookup(heap, GlobalEnv, "x") = <<"Some", VInteger(I64(1))>>
    /\ evalResult = Ok(VInteger(I64(5)))
    /\ \E k \in LetsAt :
           /\ trace[BoundExit(k) + 1] = <<"new_extending", Len(heap) + 1, GlobalEnv>>
           /\ evalHeap[Len(heap) + 1].bindings = [n \in {"x"} |-> VInteger(I64(5))]
           /\ evalHeap[GlobalEnv] = heap[GlobalEnv]

\* the calls of eval on an If
IfsAt == {k \in Events : Tag(k) = "eval" /\ trace[k][3][1] = "If"}

\* the evaluations the If at k makes itself: of its condition and its branches
OwnEvals(k) ==
    {j \in (k + 1)..(ExitOf(k) - 1) :
        /\ Tag(j) = "eval"
        /\ trace[j][2] = trace[k][2] + 1
        /\ \A i \in (k + 1)..(j - 1) :
               (Tag(i) = "eval" /\ trace[i][2] = trace[k][2] + 1) => ExitOf(i) < j}

\* the If at k: the condition, then the one branch it selects and no other
ConditionThenOneBranch(k) ==
    LET d == trace[k][2]
        expr == trace[k][3]
        env == trace[k][4]
        c == ExitOf(k + 1)
        cond == trace[c][5]
        Taken(branch) ==
            /\ trace[c + 1] = <<"eval", d + 1, branch, env>>
            /\ OwnEvals(k) = {k + 1, c + 1}
            /\ ExitOf(k) = ExitOf(c + 1) + 1
            /\ trace[ExitOf(k)][5] = trace[ExitOf(c + 1)][5]
        Neither(out) ==
            /\ OwnEvals(k) = {k + 1}
            /\ ExitOf(k) = c + 1
            /\ trace[c + 1][5] = out
    IN  /\ trace[k + 1] = <<"eval", d + 1, expr[2], env>>
        /\ ExitOf(k) <= Len(trace)
        /\ IF cond[1] # "Ok" THEN Neither(cond)
           ELSE IF cond[2] = VBoolean(TRUE) THEN Taken(expr[3])
           ELSE IF cond[2] = VBoolean(FALSE) THEN Taken(expr[4])
           ELSE Neither(Err(TypeError("Boolean", TypeName(cond[2]), Display(cond[2]))))

\* C12: an If evaluates the condition and then exactly one branch, the
\* then-branch when the condition is Boolean true and the else-branch when it
\* is Boolean false, and its outcome is that branch's; the other branch is not
\* evaluated.  A condition that is not a Boolean fails with TypeError, and a
\* condition that fails ends the If, neither branch being evaluated.
C12_ConditionThenOneBranch == \A k \in IfsAt : ConditionThenOneBranch(k)

\* `if false then u else 2` entered with u unbound: 2, u was never evaluated
C12_Witness ==
    /\ replInput = <<"Expression", EIf(ELiteral(LBoolean(FALSE)), Var("u"), Num(2))>>
    /\ evalResult = Ok(VInteger(I64(2)))
    /\ \A k \in Events : Tag(k) = "eval" => trace[k][3] # Var("u")
    /\ \E k \in Events : trace[k] = <<"eval", 1, Num(2), GlobalEnv>>

\* the calls of eval on a BinaryOp other than |>, or on a UnaryOp
OperatorsAt ==
    {k \in Events : /\ Tag(k) = "eval"
                    /\ trace[k][3][1] \in {"BinaryOp", "UnaryOp"}
                    /\ trace[k][3][2] # "|>"}

OperandsOf(expr) == IF expr[1] = "BinaryOp" THEN <<expr[3], expr[4]>> ELSE <<expr[3]>>

\* the evaluations of the operands of the operator at k
OperandEvals(k) ==
    {j \in OwnEvals(k) :
        \A i \in (k + 1)..j : ~(Tag(i) = "apply" /\ trace[i][2] = trace[k][2])}

\* the operators at k whose operands all evaluated to values
OperandsEvaluated(k) ==
    /\ Cardinality(OperandEvals(k)) = Len(OperandsOf(trace[k][3]))
    /\ \A j \in OperandEvals(k) : trace[ExitOf(j)][5][1] = "Ok"

\* what the operator at k does with the values of its operands: a name bound
\* to a Function is applied to them, an unbound name is looked up in the
\* native table, and a name bound to another value does Otherwise
OperatorDispatch(k, Otherwise(_, _)) ==
    LET d == trace[k][2]
        expr == trace[k][3]
        env == trace[k][4]
        evals == Ordered(OperandEvals(k))
        n == Len(OperandsOf(expr))
        vals == [i \in 1..n |-> trace[ExitOf(evals[i])][5][2]]
        next == ExitOf(evals[n]) + 1
        found == Lookup(evalHeap, env, expr[2])
        Returns(out) == trace[next] = <<"exit", d, expr, env, out>>
        Native == ApplyNativeFunction(expr[2], vals, overflowChecks)
    IN  /\ \A i \in 1..n : trace[evals[i]] = <<"eval", d + 1, OperandsOf(expr)[i], env>>
        /\ next <= Len(trace)
        /\ IF found = <<"None">> THEN Tag(next) = "exit" /\ Returns(Native)
           ELSE IF found[2][1] = "Function"
           THEN Tag(next) = "apply" /\ trace[next] = <<"apply", d, found[2], vals>>
           ELSE Tag(next) = "exit" /\ Returns(Otherwise(found[2], Native))

\* C13, as stated: an operator other than |> applies the value its name is
\* bound to in the environment chain when that value is a Function (a Closure
\* or a Native), and in every other case gives the outcome of the native
\* operator table.
C13_OtherwiseNativeTable ==
    \A k \in OperatorsAt :
        OperandsEvaluated(k) => OperatorDispatch(k, LAMBDA bound, native : native)

\* C13: an operator other than |> applies the value its name is bound to in
\* the environment chain when that value is a Function (a Closure or a
\* Native), gives the outcome of the native operator table when its name is
\* unbound in the chain, and fails with NotAFunction when its name is bound
\* to a value that is not a Function.
C13_BoundFunctionElseNativeIfUnbound ==
    \A k \in OperatorsAt :
        OperandsEvaluated(k) =>
            OperatorDispatch(k, LAMBDA bound, native : Err(NotAFunction(Display(bound))))

\* `1 + 2` entered after `+` was declared as lambda (a, b) [b, a]: the
\* closure is applied, not the native addition
C13_Witness ==
    /\ replInput = <<"Expression", EBinaryOp("+", Num(1), Num(2))>>
    /\ evalResult = Ok(VList(<<VInteger(I64(2)), VInteger(I64(1))>>))
    /\ \E k \in OperatorsAt :
           /\ OperandsEvaluated(k)
           /\ Lookup(evalHeap, trace[k][4], "+")[2][2][1] = "Closure"

\* a |> f was entered
PipeEntered == replInput[1] = "Expression" /\ replInput[2] \in PipeInputs

\* the outcome of evaluating expr where the expression entered was evaluated
OutcomeOf(expr) == Eval(expr, GlobalEnv, [heap |-> heap, trace |-> <<>>], 0).out

\* the application of f to a as its sole argument, for the a |> f entered
AsApplication == App(replInput[2][4], <<replInput[2][3]>>)

BothFail ==
    /\ OutcomeOf(replInput[2][3])[1] # "Ok"
    /\ OutcomeOf(replInput[2][4])[1] # "Ok"

\* C14, as stated: for all expressions a and f and every environment,
\* evaluating a |> f gives the same outcome, the same value or the same
\* error, as evaluating the application of f to a as its sole argument.
C14_PipeIsApplication == PipeEntered => evalResult = OutcomeOf(AsApplication)

\* C14: evaluating a |> f gives the same outcome, the same value or the same
\* error, as evaluating the application of f to a as its sole argument, unless
\* the evaluations of a and of f both fail: then a |> f, which evaluates a
\* first, fails as a does, and the application, which evaluates f first,
\* fails as f does.
C14_PipeIsApplicationUnlessBothFail ==
    PipeEntered =>
        IF BothFail
        THEN /\ evalResult = OutcomeOf(replInput[2][3])
             /\ OutcomeOf(AsApplication) = OutcomeOf(replInput[2][4])
        ELSE evalResult = OutcomeOf(AsApplication)

\* `1 |> f` entered after f = lambda (a, b) [a, b] was declared: both fail
\* with the same ArityMismatch
C14_Witness ==
    /\ replInput = <<"Expression", EBinaryOp("|>", Num(1), Var("f"))>>
    /\ evalResult = Err(ArityMismatch("Closure", "2", 1))
    /\ evalResult = OutcomeOf(AsApplication)
    /\ \E k \in Events : Tag(k) = "apply" /\ trace[k][4] = <<VInteger(I64(1))>>

\* the calls of eval on a Set literal, and on a Map literal
SetsAt == {k \in Events : Tag(k) = "eval" /\ trace[k][3][1] = "Set"}
MapsAt == {k \in Events : Tag(k) = "eval" /\ trace[k][3][1] = "Map"}

\* the checks and insertions the literal at k makes itself, those of the
\* literals nested in its elements left out
OwnInsertions(k) ==
    {j \in (k + 1)..(ExitOf(k) - 1) :
        /\ Tag(j) \in {"is_hashable", "insert"}
        /\ trace[j][3] = trace[k][3][1]
        /\ \A i \in OwnEvals(k) : ~(i < j /\ j < ExitOf(i))}

\* an element is inserted, or rejected as not hashable
Settled(j) == Tag(j) = "insert" \/ (Tag(j) = "is_hashable" /\ NonHashable(trace[j][2]))

\* every element expression of the literal at k has returned before event j
AllEvaluatedBefore(k, j) ==
    Cardinality({i \in OwnEvals(k) : ExitOf(i) < j}) = Len(trace[k][3][2])

\* C17, as stated: a Set or Map literal first evaluates every element (value)
\* expression and only afterwards assembles the collection: no element is
\* inserted or rejected while an element expression of the same literal is
\* still unevaluated.
C17_AllEvaluatedThenAssembled ==
    \A k \in SetsAt \cup MapsAt :
        \A j \in OwnInsertions(k) : Settled(j) => AllEvaluatedBefore(k, j)

\* the Set literal at k, element by element: evaluated, checked, inserted
SetElementByElement(k) ==
    LET d == trace[k][2]
        expr == trace[k][3]
        env == trace[k][4]
        evals == Ordered(OwnEvals(k))
        n == Cardinality(OwnEvals(k))
        Returns(j, out) == trace[j] = <<"exit", d, expr, env, out>>
    IN  /\ ExitOf(k) <= Len(trace)
        /\ n <= Len(expr[2])
        /\ n = 0 => Len(expr[2]) = 0 /\ Returns(k + 1, Ok(VSet({})))
        /\ \A i \in 1..n :
               LET e == ExitOf(evals[i])
                   out == trace[e][5]
               IN  /\ evals[i] = IF i = 1 THEN k + 1 ELSE ExitOf(evals[i - 1]) + 3
                   /\ trace[evals[i]] = <<"eval", d + 1, expr[2][i], env>>
                   /\ IF out[1] # "Ok" THEN i = n /\ Returns(e + 1, out)
                      ELSE /\ trace[e + 1] = <<"is_hashable", out[2], "Set">>
                           /\ IF NonHashable(out[2])
                              THEN /\ i = n
                                   /\ Returns(e + 2, Err(HashingError(Display(out[2]),
                                                                      TypeName(out[2]))))
                              ELSE /\ trace[e + 2] = <<"insert", out[2], "Set">>
                                   /\ i = n => /\ n = Len(expr[2])
                                               /\ ExitOf(k) = e + 3
                                               /\ trace[e + 3][5][1] = "Ok"

\* the Map literal at k, entry by entry: key checked, value evaluated, inserted
MapEntryByEntry(k) ==
    LET d == trace[k][2]
        expr == trace[k][3]
        env == trace[k][4]
        evals == Ordered(OwnEvals(k))
        n == Cardinality(OwnEvals(k))
        Returns(j, out) == trace[j] = <<"exit", d, expr, env, out>>
    IN  /\ ExitOf(k) <= Len(trace)
        /\ n <= Len(expr[2])
        /\ n = 0 => Len(expr[2]) = 0 /\ ExitOf(k) = k + 1
        /\ \A i \in 1..n :
               LET e == ExitOf(evals[i])
                   out == trace[e][5]
                   key == VString(expr[2][i][1])
               IN  /\ evals[i] = IF i = 1 THEN k + 2 ELSE ExitOf(evals[i - 1]) + 3
                   /\ trace[evals[i] - 1] = <<"is_hashable", key, "Map">>
                   /\ trace[evals[i]] = <<"eval", d + 1, expr[2][i][2], env>>
                   /\ IF out[1] # "Ok" THEN i = n /\ Returns(e + 1, out)
                      ELSE /\ trace[e + 1] = <<"insert", key, "Map">>
                           /\ i = n => /\ n = Len(expr[2])
                                       /\ ExitOf(k) = e + 2
                                       /\ trace[e + 2][5][1] = "Ok"

\* C17: a Set or Map literal takes its elements (entries) in order, one at a
\* time: the element (value) expression is evaluated, the hashability check
\* is made (for a Map on the entry's String key, before its value is
\* evaluated) and the element is inserted before the next element expression
\* is evaluated; the first element that fails or is rejected ends the
\* literal, the expressions after it being left unevaluated.
C17_ElementByElement ==
    /\ \A k \in SetsAt : SetElementByElement(k)
    /\ \A k \in MapsAt : MapEntryByEntry(k)

\* `{lambda () 1, u}` entered with u unbound: the Function is rejected and u
\* is never evaluated
C17_Witness ==
    /\ replInput = <<"Expression", ESet(<<ConstFn, Var("u")>>)>>
    /\ evalResult[1] = "Err"
    /\ evalResult[2][1] = "HashingError"
    /\ \E j \in Events : Tag(j) = "is_hashable" /\ NonHashable(trace[j][2])
    /\ \A j \in Events : Tag(j) = "eval" => trace[j][3] # Var("u")

\* the calls of eval on a Quasiquote
QuasiquotesAt == {k \in Events : Tag(k) = "eval" /\ trace[k][3][1] = "Quasiquote"}

RECURSIVE UnquotesOf(_)
RECURSIVE UnquotesOfAll(_, _)

\* the inner expressions of the Unquote nodes of a quasiquoted body, and of
\* the UnquoteSplice elements of its Lists and Sets, from left to right
UnquotesOf(expr) ==
    CASE expr[1] \in {"Literal", "Variable"} -> <<>>
      [] expr[1] = "Unquote" -> <<expr[2]>>
      [] expr[1] = "UnquoteSplice" -> <<>>
      [] expr[1] \in {"List", "Set"} ->
             UnquotesOfAll([i \in 1..Len(expr[2]) |->
                               IF expr[2][i][1] = "UnquoteSplice"
                               THEN EUnquote(expr[2][i][2]) ELSE expr[2][i]], 1)
      [] expr[1] = "Map" -> UnquotesOfAll([i \in 1..Len(expr[2]) |-> expr[2][i][2]], 1)
      [] expr[1] = "BinaryOp" -> UnquotesOfAll(<<expr[3], expr[4]>>, 1)
      [] expr[1] = "UnaryOp" -> UnquotesOf(expr[3])
      [] expr[1] = "If" -> UnquotesOfAll(<<expr[2], expr[3], expr[4]>>, 1)
      [] expr[1] = "Let" -> UnquotesOfAll(<<expr[3], expr[4]>>, 1)
      [] expr[1] = "Lambda" -> UnquotesOf(expr[3])
      [] expr[1] = "Application" -> UnquotesOfAll(<<expr[2]>> \o expr[3], 1)
      [] expr[1] \in {"Quote", "Quasiquote"} -> UnquotesOf(expr[2])

UnquotesOfAll(exprs, i) ==
    IF i > Len(exprs) THEN <<>>
    ELSE UnquotesOf(exprs[i]) \o UnquotesOfAll(exprs, i + 1)

\* the quasiquote at k evaluates the inner expressions of its Unquote nodes,
\* in order and where it is evaluated itself, and nothing else: all of them
\* when it returns a value, those up to the one that failed otherwise
UnquotesEvaluated(k) ==
    LET d == trace[k][2]
        env == trace[k][4]
        inner == UnquotesOf(trace[k][3][2])
        evals == Ordered(OwnEvals(k))
        n == Cardinality(OwnEvals(k))
    IN  /\ ExitOf(k) <= Len(trace)
        /\ n <= Len(inner)
        /\ \A i \in 1..n : trace[evals[i]] = <<"eval", d + 1, inner[i], env>>
        /\ trace[ExitOf(k)][5][1] = "Ok" => n = Len(inner)

\* (+ 1 5)
OnePlusFive == VList(<<VSymbol("+"), VInteger(I64(1)), VInteger(I64(5))>>)

\* + is the native addition, as in the environment the REPL starts with
NativePlus == Lookup(heap, GlobalEnv, "+") = <<"Some", VNative("+")>>

\* the outcome when the values of the Unquotes `inner` take their places in
\* Built, or the error of the first of them that fails
Replacing(inner, Built(_)) ==
    LET outs == [i \in 1..Len(inner) |-> OutcomeOf(inner[i])]
        failed == {i \in 1..Len(inner) : outs[i][1] # "Ok"}
    IN  IF failed = {} THEN Ok(Built([i \in 1..Len(inner) |-> outs[i][2]]))
        ELSE outs[CHOOSE i \in failed : \A j \in failed : i <= j]

\* what the quasiquotes entered give when every Unquote is replaced by the
\* value of its inner expression and every other node is reified
UnquotesReplaced ==
    /\ replInput = <<"Expression", EQuasiquote(EBinaryOp("+", Num(1), EUnquote(Sum23)))>>
           => evalResult = Replacing(<<Sum23>>, LAMBDA v :
                               VList(<<VSymbol("+"), VInteger(I64(1)), v[1]>>))
    /\ replInput = <<"Expression",
                     EQuasiquote(App(Var("g"), <<EUnquote(Var("x")), Var("y"),
                                                 EUnquote(Sum23)>>))>>
           => evalResult = Replacing(<<Var("x"), Sum23>>, LAMBDA v :
                               VList(<<VSymbol("g"), v[1], VSymbol("y"), v[2]>>))
    /\ replInput = <<"Expression",
                     EQuasiquote(ELet(PVariable("v"), EUnquote(Num(1)), EUnquote(Sum23)))>>
           => evalResult = Replacing(<<Num(1), Sum23>>, LAMBDA v :
                               VList(<<VSymbol("let"), VSymbol("v"), v[1], v[2]>>))
    /\ replInput = <<"Expression",
                     EQuasiquote(EList(<<Var("a"), EUnquote(Sum23),
                         EMap(<<<<"k", EUnquote(Num(1))>>, <<"j", Var("b")>>>>)>>))>>
           => evalResult = Replacing(<<Sum23, Num(1)>>, LAMBDA v :
                               VList(<<VSymbol("a"), v[1],
                                       VMap([key \in {VSymbol("k"), VSymbol("j")} |->
                                               IF key = VSymbol("k") THEN v[2]
                                               ELSE VSymbol("b")])>>))

\* the part of C18 about the nodes of the syntax tree
C18_UnquoteNodesEvaluated ==
    /\ \A k \in QuasiquotesAt : UnquotesEvaluated(k)
    /\ UnquotesReplaced

\* C18: inside a quasiquote every Unquote node, at whatever position of the
\* body, is replaced by the value of its inner expression evaluated in the
\* current environment, and every other node is reified unevaluated; hence
\* the line `(1 + ~(2 + 3)) under a backquote gives the List (+ 1 5).
C18_UnquoteAnywhere ==
    /\ C18_UnquoteNodesEvaluated
    /\ (replInput = <<"Expression", NestedQuotingLine>> /\ NativePlus)
           => evalResult = Ok(OnePlusFive)

\* a quasiquoted List or Set literal was entered whose elements are literals,
\* variables and unquote-splices
FlatItems(items) ==
    \A i \in 1..Len(items) : items[i][1] \in {"Literal", "Variable", "UnquoteSplice"}
SpliceEntered ==
    /\ replInput[1] = "Expression"
    /\ replInput[2][1] = "Quasiquote"
    /\ replInput[2][2][1] \in {"List", "Set"}
    /\ FlatItems(replInput[2][2][2])
    /\ \E i \in 1..Len(replInput[2][2][2]) : replInput[2][2][2][i][1] = "UnquoteSplice"

\* the elements of a List or Set value, those of a List in order
ElementsOf(v) == IF v[1] = "List" THEN v[2] ELSE SetToSeq(v[2])
ElementSet(v) == {ElementsOf(v)[i] : i \in 1..Len(ElementsOf(v))}

RECURSIVE Spliced(_, _, _, _, _)
\* what items[i..] add to acc, the elements so far of the enclosing List or
\* Set: the outcome, or <<"QuasiquoteError">> for an error of that kind.
\* refused(kind, v) tells the List and Set values that are not spliced.
Spliced(kind, items, i, acc, refused) ==
    IF i > Len(items) THEN Ok(<<kind, acc>>)
    ELSE IF items[i][1] = "Literal"
    THEN Spliced(kind, items, i + 1,
                 IF kind = "List" THEN Append(acc, EvalLiteral(items[i][2]))
                 ELSE acc \cup {EvalLiteral(items[i][2])}, refused)
    ELSE IF items[i][1] = "Variable"
    THEN Spliced(kind, items, i + 1,
                 IF kind = "List" THEN Append(acc, VSymbol(items[i][2]))
                 ELSE acc \cup {VSymbol(items[i][2])}, refused)
    ELSE LET o == OutcomeOf(items[i][2])
         IN  IF o[1] # "Ok" THEN o
             ELSE IF o[2][1] \notin {"List", "Set"} THEN <<"QuasiquoteError">>
             ELSE IF refused[kind][o[2][1]] /\ (kind = "Set" => NonHashable(o[2]))
             THEN <<"QuasiquoteError">>
             ELSE Spliced(kind, items, i + 1,
                          IF kind = "List" THEN acc \o ElementsOf(o[2])
                          ELSE acc \cup ElementSet(o[2]), refused)

\* the quasiquote entered gives what Spliced says
SplicedAs(refused) ==
    LET kind == replInput[2][2][1]
        expected == Spliced(kind, replInput[2][2][2], 1,
                            IF kind = "List" THEN <<>> ELSE {}, refused)
    IN  IF expected = <<"QuasiquoteError">>
        THEN evalResult[1] = "Err" /\ evalResult[2][1] = "QuasiquoteError"
        ELSE evalResult = expected

\* C19, as stated: inside a quasiquote, an UnquoteSplice element of a List or
\* Set literal whose inner expression evaluates to a List or a Set has that
\* value's elements spliced individually into the enclosing collection, for
\* an enclosing List in order at the position of the splice; an inner value
\* that is neither a List nor a Set fails with QuasiquoteError.
C19_ListOrSetSpliced ==
    SpliceEntered =>
        SplicedAs([kind \in {"List", "Set"} |-> [type \in {"List", "Set"} |-> FALSE]])

\* C19: inside a quasiquote, an UnquoteSplice element of a List literal whose
\* inner expression evaluates to a List has that value's elements spliced in
\* order at the position of the splice, and one of a Set literal whose inner
\* expression evaluates to a List or a Set of hashable elements has them
\* inserted individually; a Set value spliced into a List, a value with an
\* element that is not hashable spliced into a Set, and a value that is
\* neither a List nor a Set fail with QuasiquoteError.
C19_SplicedOrQuasiquoteError ==
    SpliceEntered =>
        SplicedAs([kind \in {"List", "Set"} |->
                      [type \in {"List", "Set"} |-> kind = "Set" \/ type = "Set"]])

\* `[1, ~@[2, 3], 4] under a backquote: the List 1, 2, 3, 4
C19_Witness ==
    /\ replInput = <<"Expression",
                     EQuasiquote(EList(<<Num(1), EUnquoteSplice(EList(<<Num(2), Num(3)>>)),
                                         Num(4)>>))>>
    /\ SpliceEntered
    /\ evalResult = Ok(VList(<<VInteger(I64(1)), VInteger(I64(2)),
                               VInteger(I64(3)), VInteger(I64(4))>>))

BindReturned == bindCall.out # <<"None">>

\* C15: for a List pattern with n sub-patterns and a List value whose length
\* is not n, bind_pattern returns false, not an error, and the caller's
\* binding table is as it was before the call.
C15_ListLengthMismatchIsNoMatch ==
    (/\ BindReturned
     /\ bindCall.pattern[1] = "List"
     /\ bindCall.value[1] = "List"
     /\ Len(bindCall.pattern[2]) # Len(bindCall.value[2]))
        => bindCall.out = <<"Ok", FALSE, bindCall.bindings>>

\* the pattern [a, b] against the list [1] with a bound to 9 before the call
C15_Witness ==
    /\ BindReturned
    /\ bindCall.pattern = PList(<<PVariable("a"), PVariable("b")>>)
    /\ bindCall.value = VList(<<VInteger(I64(1))>>)
    /\ bindCall.bindings = [n \in {"a"} |-> VInteger(I64(9))]
    /\ bindCall.out = <<"Ok", FALSE, [n \in {"a"} |-> VInteger(I64(9))]>>

\* C16: for a Set pattern with n sub-patterns and a Set value with exactly n
\* elements, bind_pattern returns match or no-match, never an error.
C16_SetPatternsNeverFail ==
    (/\ BindReturned
     /\ bindCall.pattern[1] = "Set"
     /\ bindCall.value[1] = "Set"
     /\ Len(bindCall.pattern[2]) = Cardinality(bindCall.value[2]))
        => bindCall.out[1] = "Ok"

(***************************************************************************)
(* Claims about evaluate_declaration, checked under DeclSpec               *)
(***************************************************************************)
DeclReturned == declCall.out # <<"None">>

FrameBefore == declCall.heap[declCall.env]
FrameAfter == declCall.after[declCall.env]

\* every frame but the one given, ancestors included, is as it was
OtherFramesKept ==
    /\ Len(declCall.after) >= Len(declCall.heap)
    /\ \A i \in 1..Len(declCall.heap) :
           i # declCall.env => declCall.after[i] = declCall.heap[i]

\* the frame given keeps its parent and every binding but that of `names`
OtherNamesKept(names) ==
    /\ FrameAfter.outer = FrameBefore.outer
    /\ DOMAIN FrameAfter.bindings \subseteq DOMAIN FrameBefore.bindings \cup names
    /\ \A n \in DOMAIN FrameBefore.bindings \ names :
           /\ n \in DOMAIN FrameAfter.bindings
           /\ FrameAfter.bindings[n] = FrameBefore.bindings[n]

BoundTo(name, value) ==
    /\ name \in DOMAIN FrameAfter.bindings
    /\ FrameAfter.bindings[name] = value

\* what the initializer of an Entity evaluates to in the frame given
InitializerOutcome ==
    IF declCall.declaration[3][1] = "Some"
    THEN Eval(declCall.declaration[3][2], declCall.env,
              [heap |-> declCall.heap, trace |-> <<>>], 0).out
    ELSE Ok(VNull)

DeclaredBinding ==
    CASE declCall.declaration[1] = "Entity" ->
             IF InitializerOutcome[1] = "Ok"
             THEN BoundTo(declCall.declaration[2], InitializerOutcome[2])
             ELSE FrameAfter = FrameBefore /\ declCall.out = InitializerOutcome
      [] declCall.declaration[1] = "Function" ->
             /\ BoundTo(declCall.declaration[2],
                        VClosure(<<>>, declCall.declaration[3], declCall.env))
      [] declCall.declaration[1] = "Type" ->
             BoundTo(declCall.declaration[2],
                     VSymbol("type " \o declCall.declaration[2]))
      [] declCall.declaration[1] = "Operation" ->
             BoundTo(declCall.declaration[2],
                     VSymbol("op " \o declCall.declaration[2]))
      [] declCall.declaration[1] = "Dependency" -> FrameAfter = FrameBefore

\* C20: evaluate_declaration changes only the frame it is given: an Entity
\* binds its initializer's value (Null without an initializer), a Function a
\* Closure capturing that frame, a Type or Operation a Symbol, a Dependency
\* nothing; no other name of the frame and no other frame is altered.
C20_OnlyTheGivenFrame ==
    DeclReturned =>
        /\ OtherFramesKept
        /\ OtherNamesKept(IF declCall.declaration[1] = "Dependency" THEN {}
                          ELSE {declCall.declaration[2]})
        /\ DeclaredBinding

\* a Function declared in the grandchild frame, over a name its ancestors and
\* the frame itself bind otherwise
C20_Witness ==
    /\ DeclReturned
    /\ declCall.heap = NestedFrames
    /\ declCall.env = 3
    /\ declCall.declaration = DFunction("g", Var("x"))
    /\ declCall.out = Ok(<<>>)
    /\ FrameAfter.bindings["g"] = VClosure(<<>>, Var("x"), 3)
    /\ declCall.after[1] = NestedFrames[1]
    /\ declCall.after[2] = NestedFrames[2]

(***************************************************************************)
(* Claims about the diagnostic synthesizer, checked under DiagSpec         *)
(***************************************************************************)
DiagReturned == diagCall.out # <<"None">>

\* the call converted a grammar mismatch (not a custom error)
MismatchConverted == DiagReturned /\ diagCall.error.variant[1] = "ParsingError"

FailingSpan == SpanOfLocation(diagCall.error.location)
NegativeRules == diagCall.error.variant[3]

\* C21: a grammar mismatch with a zero-length failing span is reported as
\* MissingToken, one with a non-zero span or a populated negative-rule set as
\* UnexpectedToken (the negative rules deciding where both apply).
C21_MissingIffZeroLength ==
    MismatchConverted =>
        /\ (FailingSpan.len = 0 /\ NegativeRules = <<>>)
               => diagCall.out[2].variant = "MissingToken"
        /\ (FailingSpan.len > 0 \/ NegativeRules # <<>>)
               => diagCall.out[2].variant = "UnexpectedToken"

(***************************************************************************)
(* Claims about the parser's recovery, checked under ParseSpec             *)
(***************************************************************************)
ParseReturned == parseCall.function \in {"parse_expr", "parse_expr_with_context"}

\* C22: with recovery enabled, the diagnostics recorded while parsing one
\* input never number more than the configured maximum error count, 10 by
\* default.
C22_DiagnosticsWithinMaxErrors ==
    (ParseReturned /\ parseCall.recovery)
        => Len(parseCall.diagnostics) <= parseCall.max_errors

RECURSIVE HoldsPlaceholder(_)
\* whether an expression the Pratt parser built has the placeholder in it
HoldsPlaceholder(expr) ==
    CASE expr = ErrorPlaceholder -> TRUE
      [] expr[1] = "BinaryOp" -> HoldsPlaceholder(expr[3]) \/ HoldsPlaceholder(expr[4])
      [] expr[1] = "UnaryOp" -> HoldsPlaceholder(expr[3])
      [] OTHER -> FALSE

\* C29: an expression parse_expr returns as Ok has no _error_ placeholder in
\* it, and no diagnostic was recorded and dropped on the way to it.
C29_OkWithoutPlaceholder ==
    (parseCall.function = "parse_expr" /\ parseCall.out[1] = "Ok")
        => /\ ~HoldsPlaceholder(parseCall.out[2])
           /\ parseCall.diagnostics = <<>>

(***************************************************************************)
(* Claims about the observer, checked under ObserverSpec                   *)
(***************************************************************************)
\* traceable_parse is not in progress and has returned at least once
TraceReturned == tpPc \in {"returned", "idle"} /\ tpCount > 0

RECURSIVE Balanced(_, _, _)
\* from log[i] on every result answers the innermost open entry, with its
\* rule and depth, and no entry stays open
Balanced(log, i, open) ==
    IF i > Len(log) THEN open = <<>>
    ELSE IF log[i][1] = "enter"
    THEN Balanced(log, i + 1, Append(open, <<log[i][2], log[i][3]>>))
    ELSE /\ open # <<>>
         /\ open[Len(open)] = <<log[i][2], log[i][3]>>
         /\ Balanced(log, i + 1, SubSeq(open, 1, Len(open) - 1))

StatsAddUp ==
    \A r \in DOMAIN observer.rule_stats :
        observer.rule_stats[r].calls
            = observer.rule_stats[r].successes + observer.rule_stats[r].failures

\* C23: every entry notification is answered by exactly one result
\* notification of the same rule and depth, so once traceable_parse has
\* returned, with Ok or with Err, the observer's depth is 0, its rule stack
\* is empty and calls = successes + failures for every rule.
C23_EveryEntryAnswered ==
    TraceReturned =>
        /\ Balanced(notes, 1, <<>>)
        /\ observer.current_depth = 0
        /\ observer.parent_stack = <<>>
        /\ StatsAddUp

\* a failed parse has returned after a successful one on the same observer
C23_Witness ==
    /\ tpPc = "returned"
    /\ tpResult = <<"Err">>
    /\ tpCount = 2
    /\ "primary" \in DOMAIN observer.rule_stats
    /\ \E r \in DOMAIN observer.rule_stats : observer.rule_stats[r].failures = 1
    /\ observer.max_depth = 5

(***************************************************************************)
(* Claims about lsmer, checked under LsmSpec                               *)
(***************************************************************************)
\* a tree was recovered and nothing was put into it since
JustRecovered ==
    /\ lsmTree[1] = "Some"
    /\ lsmTree[2].made_by = "recover"
    /\ lsmTree[2].puts = 0

\* C24: LSMTree::recover replays the write-ahead log: recovered from a WAL
\* directory into which k rows were put, the tree's memtable holds those k
\* rows (memtable_row_count = k).
C24_RecoverReplaysWal ==
    JustRecovered =>
        /\ MemtableRowCount(lsmTree[2]) = Len(walLog)
        /\ \A i \in 1..Len(walLog) :
               /\ i <= Len(lsmTree[2].memtable.rows)
               /\ BincodeSerialize(lsmTree[2].memtable.rows[i]) = walLog[i].payload

(***************************************************************************)
(* Claims about the qparser crate (QSpec).                                 *)
(***************************************************************************)
QReturned(function) == qCall.function = function

\* the text given to the last call is a writing of an expression
IsWritten == qCall.written # <<"None">>

\* the value of an expression whose grouping is given, as eval_str prints it
ValueOf(expr) ==
    LetIn(QEval(expr), LAMBDA res :
          IF res[1] = "Ok" THEN QOk(QDisplay(res[2])) ELSE res)

\* C26: a text written with the usual rules (* and / bind tighter than + and
\* -, operators of one level group from the left, brackets group first)
\* parses to the expression it was written from, and eval_str gives the
\* value of that expression.
C26_UsualPrecedence ==
    IsWritten =>
        /\ QReturned("parse") => qCall.out = QOk(qCall.written)
        /\ QReturned("eval_str") => qCall.out = ValueOf(qCall.written)

\* eval_str("1+2*3") has returned "7"
C26_Witness ==
    /\ QReturned("eval_str")
    /\ qCall.input = <<"1", "+", "2", "*", "3">>
    /\ qCall.written = QAdd(QInt(1), QMul(QInt(2), QInt(3)))
    /\ qCall.out = QOk("7")

(***************************************************************************)
(* Claims about the equality and the hash of Values (HashSpec).            *)
(***************************************************************************)
BothHashed == hashCall.hash_a[1] = "Ok" /\ hashCall.hash_b[1] = "Ok"

\* C27: two hashable Values that == holds equal have one hash, an Integer
\* and the Float of its value included.
C27_EqualValuesHashEqual ==
    BothHashed /\ hashCall.eq = <<"Some", TRUE>> => hashCall.hash_a = hashCall.hash_b

(***************************************************************************)
(* Claims about parse_files_deterministic_result (ResultSpec).             *)
(***************************************************************************)
OrderedReturned == filePc = "ordered"

FileCount == Len(indexedFiles)

DistinctIndices ==
    \A i, j \in 1..FileCount : i # j => indexedFiles[i][1] # indexedFiles[j][1]

\* the ways to list every file once with the indices never going down
AscendingListings ==
    {p \in [1..FileCount -> 1..FileCount] :
        /\ \A i, j \in 1..FileCount : i # j => p[i] # p[j]
        /\ \A i, j \in 1..FileCount :
               i < j => indexedFiles[p[i]][1] <= indexedFiles[p[j]][1]}

ResultsListed(p) == [j \in 1..FileCount |-> ExampleParserFn(indexedFiles[p[j]][2])]

\* C28 as stated: whatever the indices, the vector returned holds the result
\* of every file given, once, by ascending index.
C28_EveryPairOnceAscending ==
    OrderedReturned => \E p \in AscendingListings : ordered = ResultsListed(p)

\* C28: for files of pairwise distinct indices, the vector returned holds
\* the result of every file, once, by ascending index, under every schedule
\* of the insertions.
C28_DistinctIndicesOnceAscending ==
    OrderedReturned /\ DistinctIndices =>
        \A p \in AscendingListings : ordered = ResultsListed(p)

\* two files given with the indices 2 and 0: the results come back swapped
C28_Witness ==
    /\ OrderedReturned
    /\ FileCount = 2
    /\ indexedFiles[1][1] = 2 /\ indexedFiles[2][1] = 0
    /\ ordered = <<ExampleParserFn(indexedFiles[2][2]), ExampleParserFn(indexedFiles[1][2])>>
    /\ ordered[1] # ordered[2]

(***************************************************************************)
(* Claims about run_workers (WorkerSpec).                                  *)
(***************************************************************************)
\* C30: run_workers returns Ok only when every task given was run exactly
\* once, whatever the number of workers and the tasks; and no task is ever
\* run twice.
C30_OkAfterEveryTaskOnce ==
    /\ \A k \in 1..Len(runs) : runs[k] <= 1
    /\ workerRet = <<"Ok">> => \A k \in 1..Len(runs) : runs[k] = 1
=============================================================================
